---- MODULE Spec2Model ----
(***************************************************************************)
(* A model of InfoFinder's hybrid retrieval engine:                        *)
(*   services/hybrid_search.py   HybridSearchService                       *)
(*   services/vector_store.py    VectorStoreService (ChromaDB collection)  *)
(*   services/keyword_search.py  KeywordSearchService (rank_bm25)          *)
(*                                                                         *)
(* Numbers.  Python computes with floats; the model computes with exact    *)
(* rationals.  A score is a pair <<num, den>>, den > 0.  All fused scores  *)
(* of one fusion call share one denominator, so they are compared by       *)
(* their numerators.                                                       *)
(***************************************************************************)
EXTENDS Integers, Sequences, FiniteSets, TLC

VARIABLES
    ctor,             \* outcome of HybridSearchService.__init__
    vector_weight,    \* self.vector_weight, a rational <<num, den>>
    keyword_weight,   \* self.keyword_weight, a rational <<num, den>>
    rrf_k,            \* self.rrf_k
    collection,       \* the ChromaDB collection: id -> stored text
    document_cache,   \* VectorStoreService._document_cache: id -> Document
    cache_file,       \* document_cache.json on disk
    documents,        \* KeywordSearchService.documents
    tokenized_corpus, \* KeywordSearchService.tokenized_corpus
    bm25,             \* KeywordSearchService.bm25: the corpus it was built on
    index_file,       \* bm25_index.json on disk
    deleted,          \* ids passed to delete_documents and not added since
    chat_file,        \* <chat_id>.json in config.CHATS_DIR
    llm_service,      \* the LLMService instance: its credential and provider
    messages,         \* st.session_state.messages
    op,               \* the last operation called
    args,             \* its arguments
    out               \* its outcome

conf_vars  == <<ctor, vector_weight, keyword_weight, rrf_k>>
store_vars == <<collection, document_cache, cache_file>>
kw_vars    == <<documents, tokenized_corpus, bm25, index_file>>
call_vars  == <<op, args, out>>
ui_vars    == <<llm_service, messages>>
vars == <<conf_vars, store_vars, kw_vars, deleted, chat_file, ui_vars, call_vars>>

(***************************************************************************)
(* Bounds of the model and constants of the program.                       *)
(***************************************************************************)
MaxWeight == 2
MaxList == 2
MaxTopK == 2
MaxDocs == 3
RRF_K == 60
DefaultWeight == 1
MaxBatch == 2
MaxQueries == 2
TOP_K_RETRIEVAL == 20


(***************************************************************************)
(* Generic helpers.                                                        *)
(***************************************************************************)
Min(a, b) == IF a < b THEN a ELSE b
Max(a, b) == IF a > b THEN a ELSE b

RECURSIVE Gcd(_, _)
Gcd(a, b) == IF b = 0 THEN a ELSE Gcd(b, a % b)

Lcm(a, b) == (a \div Gcd(a, b)) * b

Range(s) == {s[i] : i \in DOMAIN s}

\* Python's s[:n] for n >= 0
Take(s, n) == SubSeq(s, 1, Min(n, Len(s)))

RECURSIVE SumOver(_, _)
SumOver(S, f) ==
    IF S = {} THEN 0
    ELSE LET x == CHOOSE y \in S : TRUE
         IN f[x] + SumOver(S \ {x}, f)

\* f as an explicit table: TLC evaluates [x \in S |-> e] anew at every
\* application, a table once
RECURSIVE Table(_, _)
Table(f, D) ==
    IF D = {} THEN <<>>
    ELSE LET x == CHOOSE y \in D : TRUE
         IN (x :> f[x]) @@ Table(f, D \ {x})

\* Sequences over S of length 0..n
SeqsUpTo(S, n) == UNION {[1..m -> S] : m \in 0..n}

(***************************************************************************)
(* HybridSearchService.__init__ (hybrid_search.py 19-49).  The weights     *)
(* passed in are non-negative rationals over a common unit; the stored     *)
(* weights are input / total_weight, kept as <<input, total_weight>>.      *)
(***************************************************************************)
total_weight(vw, kw) == vw + kw

\* `rrf_k or config.RRF_K`: a falsy rrf_k (None, 0) selects the default
effective_rrf_k(k) == IF k = 0 THEN RRF_K ELSE k

\* `top_k or config.TOP_K_RETRIEVAL`
effective_top_k(top_k) == IF top_k = 0 THEN TOP_K_RETRIEVAL ELSE top_k

init_service(vw, kw, k) ==
    IF total_weight(vw, kw) = 0
    THEN /\ ctor' = "ZeroDivisionError"
         /\ UNCHANGED <<vector_weight, keyword_weight, rrf_k>>
    ELSE /\ ctor' = "ok"
         /\ vector_weight' = <<vw, total_weight(vw, kw)>>
         /\ keyword_weight' = <<kw, total_weight(vw, kw)>>
         /\ rrf_k' = effective_rrf_k(k)

(***************************************************************************)
(* Reciprocal Rank Fusion (hybrid_search.py 116-169 and 262-312).          *)
(* FusionScale is the model's common denominator for 1/(k+rank),           *)
(* rank = 1..n: the least common multiple of k+1 .. k+n.                   *)
(***************************************************************************)
RECURSIVE FusionScale(_, _)
FusionScale(k, n) == IF n = 0 THEN 1 ELSE Lcm(FusionScale(k, n - 1), k + n)

\* enumerate(results, start=1): the ranks at which id occurs in results
RanksOf(results, id) == {r \in DOMAIN results : results[r].document.id = id}

\* a faulty variant: the ranks counted from 0, as enumerate(results) would
list_contribution_from_rank_0(results, weight_num, scale, id) ==
    SumOver(RanksOf(results, id),
            [r \in DOMAIN results |-> weight_num * (scale \div (rrf_k + r - 1))])

\* the sum of weight * (1.0 / (rrf_k + rank)) over one list, times scale/weight_den
list_contribution(results, weight_num, scale, id) ==
    SumOver(RanksOf(results, id),
            [r \in DOMAIN results |-> weight_num * (scale \div (rrf_k + r))])

\* rrf_scores.keys(): dict keys come in order of first insertion
RECURSIVE dict_keys(_, _)
dict_keys(results, seen) ==
    IF results = <<>> THEN seen
    ELSE LET id == Head(results).document.id
         IN dict_keys(Tail(results),
                      IF id \in Range(seen) THEN seen ELSE Append(seen, id))

\* doc_map[doc_id] = result.document: the last assignment wins
doc_map(results, id) ==
    LET r == CHOOSE i \in RanksOf(results, id) :
                 \A j \in RanksOf(results, id) : j <= i
    IN results[r].document

\* a faulty variant: the keys left in insertion order
insertion_order(keys, score) == keys

\* a faulty variant: a key goes before the keys of equal score
RECURSIVE insert_before_ties(_, _, _)
insert_before_ties(sorted, x, score) ==
    IF sorted = <<>> THEN <<x>>
    ELSE IF score[Head(sorted)] > score[x]
         THEN <<Head(sorted)>> \o insert_before_ties(Tail(sorted), x, score)
         ELSE <<x>> \o sorted

\* sorted(keys, key=score, reverse=True): descending and stable
RECURSIVE insert_sorted(_, _, _)
insert_sorted(sorted, x, score) ==
    IF sorted = <<>> THEN <<x>>
    ELSE IF score[Head(sorted)] >= score[x]
         THEN <<Head(sorted)>> \o insert_sorted(Tail(sorted), x, score)
         ELSE <<x>> \o sorted

RECURSIVE sorted_desc(_, _)
sorted_desc(keys, score) ==
    IF keys = <<>> THEN <<>>
    ELSE insert_sorted(sorted_desc(SubSeq(keys, 1, Len(keys) - 1), score),
                       keys[Len(keys)], score)

\* the SearchResult built for each of sorted_doc_ids
fused_results(all, rrf_scores, sorted_doc_ids, denominator, search_type) ==
    [i \in DOMAIN sorted_doc_ids |->
        [document    |-> doc_map(all, sorted_doc_ids[i]),
         score       |-> <<rrf_scores[sorted_doc_ids[i]], denominator>>,
         search_type |-> search_type]]

\* sorted_doc_ids = sorted(rrf_scores.keys(), ...)[:top_k]
top_fused(all, keys, rrf_scores, top_k, denominator, search_type) ==
    fused_results(all, rrf_scores, Take(sorted_desc(keys, rrf_scores), top_k),
                  denominator, search_type)

\* rrf_scores after the two loops of _rrf_fusion
two_list_scores(vector_results, keyword_results, keys, scale) ==
    Table([id \in Range(keys) |->
              list_contribution(vector_results, vector_weight[1], scale, id)
            + list_contribution(keyword_results, keyword_weight[1], scale, id)],
          Range(keys))

fuse_two_lists(vector_results, keyword_results, all, keys, scale, top_k) ==
    top_fused(all, keys,
              two_list_scores(vector_results, keyword_results, keys, scale),
              top_k, vector_weight[2] * scale, "hybrid")

\* a faulty variant: nothing is returned unless both lists have results
rrf_fusion_of_two_hits(vector_results, keyword_results, top_k) ==
    IF vector_results = <<>> \/ keyword_results = <<>> THEN <<>>
    ELSE fuse_two_lists(vector_results, keyword_results,
                        vector_results \o keyword_results,
                        dict_keys(vector_results \o keyword_results, <<>>),
                        FusionScale(rrf_k, Max(Len(vector_results),
                                               Len(keyword_results))),
                        top_k)

\* HybridSearchService._rrf_fusion
rrf_fusion(vector_results, keyword_results, top_k) ==
    fuse_two_lists(vector_results, keyword_results,
                   vector_results \o keyword_results,
                   dict_keys(vector_results \o keyword_results, <<>>),
                   FusionScale(rrf_k, Max(Len(vector_results), Len(keyword_results))),
                   top_k)

RECURSIVE concat(_)
concat(lists) == IF lists = <<>> THEN <<>> ELSE Head(lists) \o concat(Tail(lists))

RECURSIVE max_len(_)
max_len(lists) == IF lists = <<>> THEN 0 ELSE Max(Len(Head(lists)), max_len(Tail(lists)))

\* rrf_scores after the loop of _multi_query_rrf_fusion, weight_num / num_queries
\* being the weight of each list
multi_query_scores(query_results_list, keys, scale, weight_num) ==
    Table([id \in Range(keys) |->
              SumOver(DOMAIN query_results_list,
                      [q \in DOMAIN query_results_list |->
                          list_contribution(query_results_list[q], weight_num, scale, id)])],
          Range(keys))

fuse_query_lists(query_results_list, all, keys, scale, top_k, denominator) ==
    top_fused(all, keys, multi_query_scores(query_results_list, keys, scale, 1),
              top_k, denominator, "multi_query_hybrid")

\* a faulty variant: every list weighted 1.0 instead of 1.0 / num_queries
multi_query_rrf_fusion_unweighted(query_results_list, top_k) ==
    fuse_query_lists(query_results_list, concat(query_results_list),
                     dict_keys(concat(query_results_list), <<>>),
                     FusionScale(rrf_k, max_len(query_results_list)), top_k,
                     FusionScale(rrf_k, max_len(query_results_list)))

\* HybridSearchService._multi_query_rrf_fusion: query_weight = 1.0 / num_queries
multi_query_rrf_fusion(query_results_list, top_k) ==
    fuse_query_lists(query_results_list, concat(query_results_list),
                     dict_keys(concat(query_results_list), <<>>),
                     FusionScale(rrf_k, max_len(query_results_list)), top_k,
                     Len(query_results_list)
                       * FusionScale(rrf_k, max_len(query_results_list)))

(***************************************************************************)
(* Documents and text.  A text is the sequence of its words (what          *)
(* re.findall(r'\b\w+\b', ...) splits it into), in their original case.    *)
(***************************************************************************)
Document(id, content) == [id |-> id, content |-> content]

DocA  == Document("a", <<"Apple", "banana">>)
DocB  == Document("b", <<"banana", "cherry">>)
DocC  == Document("c", <<"The", "a", "x">>)
Corpus == {DocA, DocB, DocC}
Ids == {d.id : d \in Corpus}

Queries == {<<"apple">>, <<"the", "Banana", "cherry">>}

\* the order ChromaDB breaks distance ties in (a choice of the model)
IdOrder == <<"a", "b", "c">>

SeqIds(docs) == [i \in DOMAIN docs |-> docs[i].id]

\* str.lower()
lower(w) ==
    CASE w = "Apple"  -> "apple"
      [] w = "Banana" -> "banana"
      [] w = "The"    -> "the"
      [] w = "New"    -> "new"
      [] w = "Chat"   -> "chat"
      [] OTHER        -> w

stopwords ==
    {"a", "an", "and", "are", "as", "at", "be", "by", "for",
     "from", "has", "he", "in", "is", "it", "its", "of", "on",
     "that", "the", "to", "was", "were", "will", "with"}

\* a faulty variant: the stopwords kept
tokenize_keeping_stopwords(text) ==
    SelectSeq([i \in DOMAIN text |-> lower(text[i])], LAMBDA t : Len(t) > 1)

\* KeywordSearchService._tokenize
tokenize(text) ==
    SelectSeq([i \in DOMAIN text |-> lower(text[i])],
              LAMBDA t : Len(t) > 1 /\ t \notin stopwords)

(***************************************************************************)
(* The embedding model and ChromaDB's cosine distance, in hundredths: a    *)
(* deterministic function of the two texts (here their word overlap).      *)
(***************************************************************************)
Words(text) == {lower(text[i]) : i \in DOMAIN text}

distance(query, text) ==
    100 - (100 * Cardinality(Words(query) \cap Words(text)))
            \div Cardinality(Words(query) \cup Words(text))

(***************************************************************************)
(* rank_bm25.BM25Okapi (k1 = 1.5, b = 0.75, epsilon = 0.25), in fixed      *)
(* point: idf in 1/10000.  Ln10000[n] is round(10000 * ln n) for odd n.    *)
(***************************************************************************)
Ln10000 == [n \in {1, 3, 5, 7, 9, 11, 13, 15} |->
    CASE n = 1  -> 0
      [] n = 3  -> 10986
      [] n = 5  -> 16094
      [] n = 7  -> 19459
      [] n = 9  -> 21972
      [] n = 11 -> 23979
      [] n = 13 -> 25649
      [] n = 15 -> 27081]

Vocabulary(corpus) == UNION {Range(corpus[i]) : i \in DOMAIN corpus}

\* nd[word]: the number of documents that contain word
DocFreq(corpus, word) == Cardinality({i \in DOMAIN corpus : word \in Range(corpus[i])})

\* doc_freqs[i][word]: occurrences of word in document i
TermFreq(tokens, word) == Cardinality({j \in DOMAIN tokens : tokens[j] = word})

\* BM25Okapi(corpus) divides by len(corpus) and by len(idf)
bm25_raises(corpus) == corpus = <<>> \/ Vocabulary(corpus) = {}

\* math.log(N - n + 0.5) - math.log(n + 0.5)
raw_idf(corpus, word) ==
    Ln10000[2 * (Len(corpus) - DocFreq(corpus, word)) + 1]
  - Ln10000[2 * DocFreq(corpus, word) + 1]

average_idf(corpus) ==
    SumOver(Vocabulary(corpus), [w \in Vocabulary(corpus) |-> raw_idf(corpus, w)])
        \div Cardinality(Vocabulary(corpus))

\* negative idfs are replaced by epsilon * average_idf; unknown words score 0
idf(corpus, word) ==
    IF word \notin Vocabulary(corpus) THEN 0
    ELSE IF raw_idf(corpus, word) < 0 THEN average_idf(corpus) \div 4
    ELSE raw_idf(corpus, word)

TotalLen(corpus) == SumOver(DOMAIN corpus, [i \in DOMAIN corpus |-> Len(corpus[i])])

\* idf * tf * (k1 + 1) / (tf + k1 * (1 - b + b * doc_len / avgdl)), with
\* avgdl = total / n_docs, numerator and denominator multiplied by 8 * total
term_score(word_idf, tf, doc_len, total, n_docs) ==
    (word_idf * 20 * tf * total)
        \div (8 * tf * total + 3 * total + 9 * doc_len * n_docs)

\* the score of each document: the sum over the query tokens
document_scores(corpus, query_tokens, idfs, total) ==
    Table([i \in DOMAIN corpus |->
              SumOver(DOMAIN query_tokens,
                      [j \in DOMAIN query_tokens |->
                          term_score(idfs[query_tokens[j]],
                                     TermFreq(corpus[i], query_tokens[j]),
                                     Len(corpus[i]), total, Len(corpus))])],
          DOMAIN corpus)

\* BM25Okapi.get_scores(query_tokens): one score per document of the corpus
get_scores(corpus, query_tokens) ==
    document_scores(corpus, query_tokens,
                    Table([w \in Range(query_tokens) |-> idf(corpus, w)],
                          Range(query_tokens)),
                    TotalLen(corpus))

(***************************************************************************)
(* Outcomes of a call: it returns, or an exception leaves it.              *)
(***************************************************************************)
Returned(results) == [status |-> "ok", error |-> "", results |-> results]
Raised(error) == [status |-> "raised", error |-> error, results |-> <<>>]

(***************************************************************************)
(* KeywordSearchService (keyword_search.py).  Each operation gives the     *)
(* service's next state and the call's outcome.                            *)
(***************************************************************************)
NoIndex == [built |-> FALSE, corpus |-> <<>>]
NoFile == [exists |-> FALSE]

\* _save_index: json.dump of the documents and the tokenized corpus
save_index(docs, corpus) ==
    [exists |-> TRUE, documents |-> docs, tokenized_corpus |-> corpus]

KwState(docs, corpus, index, file, outcome) ==
    [documents |-> docs, tokenized_corpus |-> corpus, bm25 |-> index,
     index_file |-> file, outcome |-> outcome]

KwUnchanged(outcome) ==
    KwState(documents, tokenized_corpus, bm25, index_file, outcome)

\* BM25Okapi(self.tokenized_corpus)
BM25Okapi(corpus) == [built |-> TRUE, corpus |-> corpus]

\* KeywordSearchService.add_documents
ks_add_documents(docs) ==
    IF docs = <<>> THEN KwUnchanged(Returned(<<>>))
    ELSE LET new_documents == documents \o docs
             new_tokenized == tokenized_corpus
                                \o [i \in DOMAIN docs |-> tokenize(docs[i].content)]
         IN IF bm25_raises(new_tokenized)
            THEN KwState(new_documents, new_tokenized, bm25, index_file,
                         Raised("ZeroDivisionError"))
            ELSE KwState(new_documents, new_tokenized, BM25Okapi(new_tokenized),
                         save_index(new_documents, new_tokenized),
                         Returned(SeqIds(docs)))

\* the indices i with doc.id not in doc_ids, in order
RECURSIVE kept_indices(_, _, _)
kept_indices(docs, doc_ids, i) ==
    IF i > Len(docs) THEN <<>>
    ELSE (IF docs[i].id \in doc_ids THEN <<>> ELSE <<i>>)
             \o kept_indices(docs, doc_ids, i + 1)

\* KeywordSearchService.delete_documents
ks_delete_documents(doc_ids) ==
    IF doc_ids = {} THEN KwUnchanged(Returned(<<>>))
    ELSE LET kept == kept_indices(documents, doc_ids, 1)
             new_documents == [j \in DOMAIN kept |-> documents[kept[j]]]
             new_tokenized == [j \in DOMAIN kept |-> tokenized_corpus[kept[j]]]
         IN IF new_tokenized = <<>>
            THEN KwState(new_documents, new_tokenized, NoIndex,
                         save_index(new_documents, new_tokenized), Returned(<<>>))
            ELSE IF bm25_raises(new_tokenized)
            THEN KwState(new_documents, new_tokenized, bm25, index_file,
                         Raised("ZeroDivisionError"))
            ELSE KwState(new_documents, new_tokenized, BM25Okapi(new_tokenized),
                         save_index(new_documents, new_tokenized), Returned(<<>>))

\* KeywordSearchService.clear
ks_clear == KwState(<<>>, <<>>, NoIndex, save_index(<<>>, <<>>), Returned(<<>>))

\* KeywordSearchService.__init__ and _load_index
ks_load ==
    IF ~index_file.exists THEN KwState(<<>>, <<>>, NoIndex, index_file, Returned(<<>>))
    ELSE IF index_file.tokenized_corpus = <<>>
    THEN KwState(index_file.documents, <<>>, NoIndex, index_file, Returned(<<>>))
    ELSE IF bm25_raises(index_file.tokenized_corpus)
    THEN KwState(<<>>, <<>>, NoIndex, index_file, Returned(<<>>))
    ELSE KwState(index_file.documents, index_file.tokenized_corpus,
                 BM25Okapi(index_file.tokenized_corpus), index_file, Returned(<<>>))

\* a faulty variant: the first document's score taken for the maximum
first_score(scores) == scores[1]

MaxScore(scores) == CHOOSE m \in Range(scores) : \A x \in Range(scores) : x <= m

\* the documents of the top indices that scored above 0, with their scores
scored_documents(scores, hits, max_score) ==
    IF \E j \in DOMAIN hits : hits[j] > Len(documents)
    THEN Raised("IndexError")
    ELSE Returned([j \in DOMAIN hits |->
            [document    |-> documents[hits[j]],
             score       |-> <<scores[hits[j]], max_score>>,
             search_type |-> "keyword"]])

\* sorted(range(len(scores)), key=..., reverse=True)[:top_k], then
\* `if scores[idx] > 0`
top_scored(scores, top_k) ==
    scored_documents(
        scores,
        SelectSeq(Take(sorted_desc([i \in DOMAIN scores |-> i], scores),
                       effective_top_k(top_k)),
                  LAMBDA i : scores[i] > 0),
        IF MaxScore(scores) > 0 THEN MaxScore(scores) ELSE 1)

\* KeywordSearchService.search
ks_search(query, top_k) ==
    IF ~bm25.built \/ documents = <<>> THEN Returned(<<>>)
    ELSE IF tokenize(query) = <<>> THEN Returned(<<>>)
    ELSE top_scored(get_scores(bm25.corpus, tokenize(query)), top_k)

(***************************************************************************)
(* VectorStoreService (vector_store.py).  The ChromaDB collection is       *)
(* persistent; the document cache is saved to document_cache.json.         *)
(***************************************************************************)
EmptyMap == [i \in {} |-> DocA]

\* _save_document_cache
save_document_cache(cache) == [exists |-> TRUE, data |-> cache]

VsState(coll, cache, file, outcome) ==
    [collection |-> coll, document_cache |-> cache, cache_file |-> file,
     outcome |-> outcome]

VsUnchanged(outcome) == VsState(collection, document_cache, cache_file, outcome)

\* the last document of the batch that carries the id
BatchDoc(docs, id) ==
    docs[CHOOSE i \in DOMAIN docs :
            /\ docs[i].id = id
            /\ \A j \in DOMAIN docs : docs[j].id = id => j <= i]

HasDuplicateIds(docs) ==
    \E i, j \in DOMAIN docs : i # j /\ docs[i].id = docs[j].id

\* collection.add: ids repeated in the batch are rejected, ids the
\* collection already holds are skipped
collection_add(coll, docs) ==
    [id \in DOMAIN coll \cup Range(SeqIds(docs)) |->
        IF id \in DOMAIN coll THEN coll[id] ELSE BatchDoc(docs, id).content]

\* a faulty variant: the added documents are not cached
cache_not_updated(cache, docs) == cache

\* the cache update loop: self._document_cache[doc.id] = doc
cache_update(cache, docs) ==
    [id \in DOMAIN cache \cup Range(SeqIds(docs)) |->
        IF id \in Range(SeqIds(docs)) THEN BatchDoc(docs, id) ELSE cache[id]]

\* VectorStoreService.add_documents
vs_add_documents(docs, embed_ok) ==
    IF docs = <<>> THEN VsUnchanged(Returned(<<>>))
    ELSE IF ~embed_ok THEN VsUnchanged(Raised("EmbeddingError"))
    ELSE IF HasDuplicateIds(docs) THEN VsUnchanged(Raised("DuplicateIDError"))
    ELSE LET new_cache == cache_update(document_cache, docs)
         IN VsState(collection_add(collection, docs), new_cache,
                    save_document_cache(new_cache), Returned(SeqIds(docs)))

Without(map, doc_ids) == [id \in DOMAIN map \ doc_ids |-> map[id]]

\* VectorStoreService.delete_documents
vs_delete_documents(doc_ids) ==
    IF doc_ids = {} THEN VsUnchanged(Returned(<<>>))
    ELSE LET new_cache == Without(document_cache, doc_ids)
         IN VsState(Without(collection, doc_ids), new_cache,
                    save_document_cache(new_cache), Returned(<<>>))

\* VectorStoreService.clear
vs_clear == VsState(EmptyMap, EmptyMap, save_document_cache(EmptyMap), Returned(<<>>))

\* VectorStoreService.__init__ and _load_document_cache
vs_load ==
    VsState(collection,
            IF cache_file.exists THEN cache_file.data ELSE EmptyMap,
            cache_file, Returned(<<>>))

\* VectorStoreService.document_count
vs_document_count == Cardinality(DOMAIN collection)

\* collection.query: the n_results nearest ids, nearest first
collection_query(query, n_results) ==
    Take(sorted_desc(SelectSeq(IdOrder, LAMBDA id : id \in DOMAIN collection),
                     Table([id \in DOMAIN collection |->
                               0 - distance(query, collection[id])],
                           DOMAIN collection)),
         n_results)

\* a faulty variant: the distance itself is given as the score
retrieved_with_distance(query, ids) ==
    [i \in DOMAIN ids |->
        [document    |-> IF ids[i] \in DOMAIN document_cache
                         THEN document_cache[ids[i]]
                         ELSE Document(ids[i], collection[ids[i]]),
         score       |-> <<distance(query, collection[ids[i]]), 100>>,
         search_type |-> "vector"]]

\* the SearchResult of each id: the cached document, or one rebuilt from
\* what ChromaDB returns; score = 1 - distance
retrieved_documents(query, ids) ==
    [i \in DOMAIN ids |->
        [document    |-> IF ids[i] \in DOMAIN document_cache
                         THEN document_cache[ids[i]]
                         ELSE Document(ids[i], collection[ids[i]]),
         score       |-> <<100 - distance(query, collection[ids[i]]), 100>>,
         search_type |-> "vector"]]

\* min(top_k, self.collection.count()) if self.collection.count() > 0
\* else top_k
n_results(top_k) ==
    IF vs_document_count > 0
    THEN Min(effective_top_k(top_k), vs_document_count)
    ELSE effective_top_k(top_k)

\* a faulty variant: the query of an empty collection raises
vs_search_raising_when_empty(query, top_k, embed_ok) ==
    IF ~embed_ok THEN Raised("EmbeddingError")
    ELSE IF vs_document_count = 0 THEN Raised("NotEnoughElementsException")
    ELSE Returned(retrieved_documents(query,
            collection_query(query, n_results(top_k))))

\* VectorStoreService.search
vs_search(query, top_k, embed_ok) ==
    IF ~embed_ok THEN Raised("EmbeddingError")
    ELSE Returned(retrieved_documents(query,
            collection_query(query, n_results(top_k))))

(***************************************************************************)
(* HybridSearchService (hybrid_search.py).                                 *)
(***************************************************************************)
Queried(outcome, indexes) ==
    [status |-> outcome.status, error |-> outcome.error,
     results |-> outcome.results, queried |-> indexes]

Enabled(use_vector, use_keyword) ==
    (IF use_vector THEN {"vector"} ELSE {}) \cup (IF use_keyword THEN {"keyword"} ELSE {})

\* a faulty variant: fusion applied whichever indexes are enabled
combine_always_fused(vector, keyword, k, use_vector, use_keyword) ==
    IF vector.status = "raised" THEN Queried(vector, Enabled(use_vector, FALSE))
    ELSE IF keyword.status = "raised"
    THEN Queried(keyword, Enabled(use_vector, use_keyword))
    ELSE Queried(Returned(rrf_fusion(vector.results, keyword.results, k)),
                 Enabled(use_vector, use_keyword))

\* what search makes of the two indexes' results (lines 99-114)
combine(vector, keyword, k, use_vector, use_keyword) ==
    IF vector.status = "raised" THEN Queried(vector, Enabled(use_vector, FALSE))
    ELSE IF keyword.status = "raised"
    THEN Queried(keyword, Enabled(use_vector, use_keyword))
    ELSE IF ~use_vector
    THEN Queried(Returned(Take(keyword.results, k)), Enabled(FALSE, use_keyword))
    ELSE IF ~use_keyword
    THEN Queried(Returned(Take(vector.results, k)), Enabled(use_vector, FALSE))
    ELSE Queried(Returned(rrf_fusion(vector.results, keyword.results, k)),
                 Enabled(use_vector, use_keyword))

\* HybridSearchService.search: the vector search first, then the keyword
\* search; an exception of either leaves search
search(query, top_k, use_vector, use_keyword, embed_ok) ==
    combine(IF use_vector
            THEN vs_search(query, effective_top_k(top_k) * 2, embed_ok)
            ELSE Returned(<<>>),
            IF use_keyword
            THEN ks_search(query, effective_top_k(top_k) * 2)
            ELSE Returned(<<>>),
            effective_top_k(top_k), use_vector, use_keyword)

\* the loop of multi_query_search over the per-query outcomes, and the fusion
fuse_queries(per_query, failed, k) ==
    IF failed # {}
    THEN per_query[CHOOSE i \in failed : \A j \in failed : i <= j]
    ELSE IF \A i \in DOMAIN per_query : per_query[i].results = <<>>
    THEN Queried(Returned(<<>>), {"vector", "keyword"})
    ELSE Queried(Returned(multi_query_rrf_fusion(
                     SelectSeq([i \in DOMAIN per_query |-> per_query[i].results],
                               LAMBDA query_results : query_results # <<>>),
                     k)),
                 {"vector", "keyword"})

search_each(per_query, k) ==
    fuse_queries(per_query,
                 {i \in DOMAIN per_query : per_query[i].status = "raised"}, k)

\* a faulty variant: a single query fused like any other number of queries
multi_query_search_always_fused(queries, top_k, embed_ok) ==
    IF queries = <<>> THEN Queried(Returned(<<>>), {})
    ELSE search_each(Table([i \in DOMAIN queries |->
                               search(queries[i], effective_top_k(top_k) * 2,
                                      TRUE, TRUE, embed_ok)],
                           DOMAIN queries),
                     effective_top_k(top_k))

\* HybridSearchService.multi_query_search
multi_query_search(queries, top_k, embed_ok) ==
    IF queries = <<>> THEN Queried(Returned(<<>>), {})
    ELSE IF Len(queries) = 1
    THEN search(queries[1], effective_top_k(top_k), TRUE, TRUE, embed_ok)
    ELSE search_each(Table([i \in DOMAIN queries |->
                               search(queries[i], effective_top_k(top_k) * 2,
                                      TRUE, TRUE, embed_ok)],
                           DOMAIN queries),
                     effective_top_k(top_k))

\* HybridSearchService.add_documents: the vector index first, then the
\* keyword index; an exception of the first leaves the second untouched
add_documents(docs, embed_ok) ==
    LET v == vs_add_documents(docs, embed_ok)
        w == IF docs # <<>> /\ v.outcome.status = "ok"
             THEN ks_add_documents(docs)
             ELSE KwUnchanged(v.outcome)
    IN [vector |-> v, keyword |-> w,
        outcome |-> IF w.outcome.status = "raised" THEN w.outcome ELSE v.outcome]

\* HybridSearchService.delete_documents
delete_documents(doc_ids) ==
    LET v == vs_delete_documents(doc_ids)
        w == ks_delete_documents(doc_ids)
    IN [vector |-> v, keyword |-> w, outcome |-> w.outcome]

\* HybridSearchService.clear
clear == [vector |-> vs_clear, keyword |-> ks_clear, outcome |-> ks_clear.outcome]

\* HybridSearchService.document_count
document_count == vs_document_count

(***************************************************************************)
(* LLMService and its provider (llm.py).  The service keeps the credential *)
(* it was given and builds its provider at the first use; init_calls       *)
(* counts the calls of _init_provider.                                     *)
(***************************************************************************)
MaxInits == 2

Providers == {"groq", "ollama"}

\* LLMService.__init__: self._provider = None
LLMService(name, api_key) ==
    [name |-> name, api_key |-> api_key, provider |-> "None", init_calls |-> 0]

\* GroqProvider.__init__: if not self.api_key: raise ValueError
init_raises(service) == service.name = "groq" /\ ~service.api_key

\* the provider property: _init_provider runs while self._provider is None
provider(service) ==
    IF service.provider # "None" THEN service
    ELSE [service EXCEPT !.init_calls = @ + 1,
                         !.provider = IF init_raises(service) THEN "None"
                                      ELSE service.name]

\* whether reading the provider property raises
provider_raises(service) == service.provider = "None" /\ init_raises(service)

(***************************************************************************)
(* The conversation's chat file (ChatManager).                             *)
(***************************************************************************)
Owner == 1

Users == {Owner, 2}

MaxMessages == 2

\* titles and title queries, as sequences of words
Titles == {<<"New", "Chat">>, <<"notes">>}

TitleQueries == {<<"new">>, <<"Chat">>, <<"notes">>, <<>>}

Roles == {"user", "assistant"}

Contents == {"hello", "answer"}

NoChat ==
    [exists |-> FALSE, user_id |-> 0, title |-> "", document_count |-> 0,
     messages |-> <<>>]

\* a Chat object (schemas.Chat) of this conversation's id
Chat(user_id, title, count, chat_messages) ==
    [exists |-> TRUE, user_id |-> user_id, title |-> title,
     document_count |-> count, messages |-> chat_messages]

\* create_chat: Chat(id, title, user_id=self.user_id), no message yet
create_chat(user_id) == Chat(user_id, <<"New", "Chat">>, 0, <<>>)

\* schemas.Message, by role and content
Message(role, content) == [role |-> role, content |-> content]

\* get_chat on the chat file as it is at some point of a handler
read_chat(file, user_id) ==
    IF file.exists /\ file.user_id = user_id THEN file ELSE NoChat

\* get_chat: None unless the file exists and the chat belongs to the user
get_chat(user_id) == read_chat(chat_file, user_id)

\* save_chat on the chat file as it is at some point of a handler
write_chat(file, user_id, chat) ==
    IF chat.user_id # user_id THEN file ELSE chat

\* save_chat: the chat file after the call; nothing is written when the
\* chat object names another user
save_chat(user_id, chat) == write_chat(chat_file, user_id, chat)

lower_text(text) == [i \in DOMAIN text |-> lower(text[i])]

\* query in title: the words of query are consecutive words of title
contains(title, query) ==
    \E i \in 0..(Len(title) - Len(query)) :
        SubSeq(title, i + 1, i + Len(query)) = query

\* list_chats: the user's chats
list_chats(user_id) ==
    IF chat_file.exists /\ chat_file.user_id = user_id THEN <<chat_file>>
    ELSE <<>>

\* search_chats: the user's chats whose title holds the query
search_chats(user_id, query) ==
    SelectSeq(list_chats(user_id),
              LAMBDA chat : contains(lower_text(chat.title), lower_text(query)))

\* a faulty variant: the keyword snapshot survives
delete_store_keeping_index ==
    [collection |-> EmptyMap, cache_file |-> NoFile, index_file |-> index_file]

\* shutil.rmtree(config.VECTOR_STORES_DIR / chat_id): the ChromaDB files,
\* document_cache.json and bm25_index.json all live in that directory
delete_store ==
    [collection |-> EmptyMap, cache_file |-> NoFile, index_file |-> NoFile]

(***************************************************************************)
(* The state machine.  A caller is idle or holds the outcome of its last   *)
(* call (op, args, out) until it takes it (Return).                        *)
(***************************************************************************)
SetStore(v) ==
    /\ collection' = v.collection
    /\ document_cache' = v.document_cache
    /\ cache_file' = v.cache_file

SetKeyword(w) ==
    /\ documents' = w.documents
    /\ tokenized_corpus' = w.tokenized_corpus
    /\ bm25' = w.bm25
    /\ index_file' = w.index_file

Call(name, arguments, outcome) ==
    /\ op' = name
    /\ args' = arguments
    /\ out' = outcome

Batches == SeqsUpTo(Corpus, MaxBatch)

AddDocuments(docs, embed_ok) ==
    /\ op = "idle"
    /\ Len(documents) + Len(docs) <= MaxDocs
    /\ \E r \in {add_documents(docs, embed_ok)} :
          /\ SetStore(r.vector)
          /\ SetKeyword(r.keyword)
          /\ Call("add_documents", [documents |-> docs, embed_ok |-> embed_ok],
                  r.outcome)
          /\ deleted' = IF docs # <<>> /\ r.vector.outcome.status = "ok"
                        THEN deleted \ Range(SeqIds(docs))
                        ELSE deleted
    /\ UNCHANGED <<conf_vars, chat_file, ui_vars>>

DeleteDocuments(doc_ids) ==
    /\ op = "idle"
    /\ \E r \in {delete_documents(doc_ids)} :
          /\ SetStore(r.vector)
          /\ SetKeyword(r.keyword)
          /\ Call("delete_documents",
                  [doc_ids |-> doc_ids, held_before |-> DOMAIN collection,
                   count_before |-> document_count],
                  r.outcome)
          /\ deleted' = deleted \cup doc_ids
    /\ UNCHANGED <<conf_vars, chat_file, ui_vars>>

Clear ==
    /\ op = "idle"
    /\ SetStore(clear.vector)
    /\ SetKeyword(clear.keyword)
    /\ Call("clear", <<>>, clear.outcome)
    /\ UNCHANGED <<conf_vars, deleted, chat_file, ui_vars>>

Search(query, top_k, use_vector, use_keyword, embed_ok) ==
    /\ op = "idle"
    /\ Call("search",
            [query |-> query, top_k |-> top_k, use_vector |-> use_vector,
             use_keyword |-> use_keyword, embed_ok |-> embed_ok],
            search(query, top_k, use_vector, use_keyword, embed_ok))
    /\ UNCHANGED <<conf_vars, store_vars, kw_vars, deleted, chat_file, ui_vars>>

MultiQuerySearch(queries, top_k, embed_ok) ==
    /\ op = "idle"
    /\ Call("multi_query_search",
            [queries |-> queries, top_k |-> top_k, embed_ok |-> embed_ok],
            multi_query_search(queries, top_k, embed_ok))
    /\ UNCHANGED <<conf_vars, store_vars, kw_vars, deleted, chat_file, ui_vars>>

\* app.get_hybrid_search: every run of the application constructs a new
\* HybridSearchService for the conversation, which loads what is on disk
GetHybridSearch ==
    /\ op = "idle"
    /\ init_service(DefaultWeight, DefaultWeight, 0)
    /\ SetStore(vs_load)
    /\ SetKeyword(ks_load)
    /\ Call("get_hybrid_search", <<>>, Returned(<<>>))
    /\ UNCHANGED <<deleted, chat_file, ui_vars>>

Return ==
    /\ op # "idle"
    /\ op' = "idle"
    /\ args' = <<>>
    /\ out' = <<>>
    /\ UNCHANGED <<conf_vars, store_vars, kw_vars, deleted, chat_file, ui_vars>>

Init ==
    /\ ctor = "ok"
    /\ vector_weight = <<DefaultWeight, total_weight(DefaultWeight, DefaultWeight)>>
    /\ keyword_weight = <<DefaultWeight, total_weight(DefaultWeight, DefaultWeight)>>
    /\ rrf_k = RRF_K
    /\ collection = EmptyMap
    /\ document_cache = EmptyMap
    /\ cache_file = NoFile
    /\ documents = <<>>
    /\ tokenized_corpus = <<>>
    /\ bm25 = NoIndex
    /\ index_file = NoFile
    /\ deleted = {}
    /\ chat_file = create_chat(Owner)
    /\ llm_service = LLMService("groq", TRUE)
    /\ messages = <<>>
    /\ op = "idle"
    /\ args = <<>>
    /\ out = <<>>

Next ==
    \/ \E docs \in Batches, embed_ok \in BOOLEAN : AddDocuments(docs, embed_ok)
    \/ \E doc_ids \in SUBSET Ids : DeleteDocuments(doc_ids)
    \/ Clear
    \/ \E query \in Queries, top_k \in 0..MaxTopK,
          use_vector \in BOOLEAN, use_keyword \in BOOLEAN, embed_ok \in BOOLEAN :
            Search(query, top_k, use_vector, use_keyword, embed_ok)
    \/ \E queries \in SeqsUpTo(Queries, MaxQueries), top_k \in 0..MaxTopK,
          embed_ok \in BOOLEAN :
            MultiQuerySearch(queries, top_k, embed_ok)
    \/ GetHybridSearch
    \/ Return

Spec == Init /\ [][Next]_vars

(***************************************************************************)
(* The fusion engine on its own: a service constructed with any weights    *)
(* and rrf_k, and the two fusion methods called on any ranked lists.       *)
(***************************************************************************)
FusionIds == {"x", "y", "z"}

VectorResult(id) ==
    [document |-> Document(id, <<"vector", "text">>), score |-> <<1, 1>>,
     search_type |-> "vector"]

KeywordResult(id) ==
    [document |-> Document(id, <<"keyword", "text">>), score |-> <<1, 1>>,
     search_type |-> "keyword"]

HybridResult(id) ==
    [document |-> Document(id, <<"text">>), score |-> <<1, 1>>,
     search_type |-> "hybrid"]

IdLists == SeqsUpTo(FusionIds, MaxList)

NoRepeat(l) == \A i, j \in DOMAIN l : l[i] = l[j] => i = j

\* a vector search never returns an id twice (ids are unique in the collection)
VectorIdLists == {l \in IdLists : NoRepeat(l)}

\* the result lists multi_query_search passes on: non-empty, no id twice
QueryIdLists == {l \in SeqsUpTo({"x", "y"}, MaxList) : l # <<>> /\ NoRepeat(l)}

RrfKs == {0, 1}

TopKs == {1, MaxList}

Construct(vw, kw, k) ==
    /\ op = "idle"
    /\ init_service(vw, kw, k)
    /\ Call("init", [vector_weight |-> vw, keyword_weight |-> kw, rrf_k |-> k],
            <<>>)
    /\ UNCHANGED <<store_vars, kw_vars, deleted, chat_file, ui_vars>>

CallRrfFusion(vector_ids, keyword_ids, top_k) ==
    /\ op = "idle"
    /\ ctor = "ok"
    /\ LET vector_results  == [i \in DOMAIN vector_ids |-> VectorResult(vector_ids[i])]
           keyword_results == [i \in DOMAIN keyword_ids |-> KeywordResult(keyword_ids[i])]
       IN Call("rrf_fusion",
               [vector_results |-> vector_results,
                keyword_results |-> keyword_results, top_k |-> top_k],
               Returned(rrf_fusion(vector_results, keyword_results, top_k)))
    /\ UNCHANGED <<conf_vars, store_vars, kw_vars, deleted, chat_file, ui_vars>>

CallMultiQueryRrfFusion(id_lists, top_k) ==
    /\ op = "idle"
    /\ ctor = "ok"
    /\ LET query_results_list ==
               [q \in DOMAIN id_lists |->
                   [i \in DOMAIN id_lists[q] |-> HybridResult(id_lists[q][i])]]
       IN Call("multi_query_rrf_fusion",
               [query_results_list |-> query_results_list, top_k |-> top_k],
               Returned(multi_query_rrf_fusion(query_results_list, top_k)))
    /\ UNCHANGED <<conf_vars, store_vars, kw_vars, deleted, chat_file, ui_vars>>

FusionInit ==
    /\ ctor = "none"
    /\ vector_weight = <<0, 1>>
    /\ keyword_weight = <<0, 1>>
    /\ rrf_k = RRF_K
    /\ collection = EmptyMap
    /\ document_cache = EmptyMap
    /\ cache_file = NoFile
    /\ documents = <<>>
    /\ tokenized_corpus = <<>>
    /\ bm25 = NoIndex
    /\ index_file = NoFile
    /\ deleted = {}
    /\ chat_file = create_chat(Owner)
    /\ llm_service = LLMService("groq", TRUE)
    /\ messages = <<>>
    /\ op = "idle"
    /\ args = <<>>
    /\ out = <<>>

FusionNext ==
    \/ \E vw \in 0..MaxWeight, kw \in 0..MaxWeight, k \in RrfKs : Construct(vw, kw, k)
    \/ \E vector_ids \in VectorIdLists, keyword_ids \in IdLists, top_k \in TopKs :
           CallRrfFusion(vector_ids, keyword_ids, top_k)
    \/ \E id_lists \in SeqsUpTo(QueryIdLists, MaxQueries) \ {<<>>}, top_k \in TopKs :
           CallMultiQueryRrfFusion(id_lists, top_k)
    \/ Return

FusionSpec == FusionInit /\ [][FusionNext]_vars

(***************************************************************************)
(* The KeywordSearchService on its own: its operations called directly,    *)
(* and a new instance constructed for the same conversation (a restart).   *)
(***************************************************************************)
KeywordQueries == Queries \cup {<<"banana">>, <<"The", "a">>}

\* what every query returns in the current state, each call's outcome
all_searches == [query \in KeywordQueries |-> ks_search(query, 0)]

KsAddDocuments(docs) ==
    /\ op = "idle"
    /\ Len(documents) + Len(docs) <= MaxDocs
    /\ \E w \in {ks_add_documents(docs)} :
          /\ SetKeyword(w)
          /\ Call("ks_add_documents", [documents |-> docs], w.outcome)
    /\ UNCHANGED <<conf_vars, store_vars, deleted, chat_file, ui_vars>>

KsDeleteDocuments(doc_ids) ==
    /\ op = "idle"
    /\ \E w \in {ks_delete_documents(doc_ids)} :
          /\ SetKeyword(w)
          /\ Call("ks_delete_documents", [doc_ids |-> doc_ids], w.outcome)
    /\ UNCHANGED <<conf_vars, store_vars, deleted, chat_file, ui_vars>>

KsClear ==
    /\ op = "idle"
    /\ SetKeyword(ks_clear)
    /\ Call("ks_clear", <<>>, ks_clear.outcome)
    /\ UNCHANGED <<conf_vars, store_vars, deleted, chat_file, ui_vars>>

KsSearch(query, top_k) ==
    /\ op = "idle"
    /\ Call("ks_search", [query |-> query, top_k |-> top_k], ks_search(query, top_k))
    /\ UNCHANGED <<conf_vars, store_vars, kw_vars, deleted, chat_file, ui_vars>>

\* KeywordSearchService(chat_id) in a new process: the old instance is gone
KsRestart ==
    /\ op = "idle"
    /\ SetKeyword(ks_load)
    /\ Call("ks_restart",
            [documents |-> documents, tokenized_corpus |-> tokenized_corpus,
             searches |-> all_searches],
            Returned(<<>>))
    /\ UNCHANGED <<conf_vars, store_vars, deleted, chat_file, ui_vars>>

KeywordNext ==
    \/ \E docs \in Batches : KsAddDocuments(docs)
    \/ \E doc_ids \in SUBSET Ids : KsDeleteDocuments(doc_ids)
    \/ KsClear
    \/ \E query \in KeywordQueries, top_k \in 0..MaxTopK : KsSearch(query, top_k)
    \/ KsRestart
    \/ Return

KeywordSpec == Init /\ [][KeywordNext]_vars

(***************************************************************************)
(* ChatManager and the indexes of one conversation.                        *)
(***************************************************************************)
\* ChatManager(user_id).delete_chat(chat_id)
DeleteChat(user_id) ==
    /\ op = "idle"
    /\ IF get_chat(user_id).exists
       THEN /\ chat_file' = NoChat
            /\ collection' = delete_store.collection
            /\ cache_file' = delete_store.cache_file
            /\ index_file' = delete_store.index_file
       ELSE UNCHANGED <<chat_file, collection, cache_file, index_file>>
    /\ Call("delete_chat",
            [user_id |-> user_id, chat |-> get_chat(user_id),
             count_before |-> document_count,
             index_before |-> index_file.exists],
            Returned(<<>>))
    /\ UNCHANGED <<conf_vars, document_cache, documents, tokenized_corpus,
                   bm25, deleted, ui_vars>>

\* ChatManager(user_id).save_chat(chat)
SaveChat(user_id, chat) ==
    /\ op = "idle"
    /\ chat_file' = save_chat(user_id, chat)
    /\ Call("save_chat", [user_id |-> user_id, chat |-> chat], Returned(<<>>))
    /\ UNCHANGED <<conf_vars, store_vars, kw_vars, deleted, ui_vars>>

ChatNext ==
    \/ \E docs \in Batches, embed_ok \in BOOLEAN : AddDocuments(docs, embed_ok)
    \/ \E user_id \in Users : DeleteChat(user_id)
    \/ \E user_id \in Users : SaveChat(user_id, create_chat(Owner))
    \/ GetHybridSearch
    \/ Return

ChatSpec == Init /\ [][ChatNext]_vars

(***************************************************************************)
(* ChatManager (chat_manager.py): the operations of the manager of each    *)
(* user on the conversation's chat file.                                   *)
(***************************************************************************)
\* the chat objects a caller may hand to save_chat
Chats == {Chat(user_id, title, 0, <<>>) : user_id \in Users, title \in Titles}

GetChat(user_id) ==
    /\ op = "idle"
    /\ Call("get_chat", [user_id |-> user_id],
            Returned(IF get_chat(user_id).exists THEN <<get_chat(user_id)>>
                     ELSE <<>>))
    /\ UNCHANGED <<conf_vars, store_vars, kw_vars, deleted, chat_file, ui_vars>>

\* get_chat, then chat.title = title and save_chat
UpdateChatTitle(user_id, title) ==
    /\ op = "idle"
    /\ chat_file' = IF get_chat(user_id).exists
                    THEN save_chat(user_id, [get_chat(user_id) EXCEPT !.title = title])
                    ELSE chat_file
    /\ Call("update_chat_title", [user_id |-> user_id, title |-> title],
            Returned(<<>>))
    /\ UNCHANGED <<conf_vars, store_vars, kw_vars, deleted, ui_vars>>

\* the chat file after add_message: get_chat, chat.add_message, save_chat
add_message_to(file, user_id, role, content) ==
    IF read_chat(file, user_id).exists
    THEN write_chat(file, user_id,
                    [read_chat(file, user_id) EXCEPT
                        !.messages = Append(@, Message(role, content))])
    ELSE file

add_message(user_id, role, content) ==
    add_message_to(chat_file, user_id, role, content)

AddMessage(user_id, role, content) ==
    /\ op = "idle"
    /\ Len(chat_file.messages) < MaxMessages
    /\ chat_file' = add_message(user_id, role, content)
    /\ Call("add_message",
            [user_id |-> user_id, role |-> role, content |-> content],
            Returned(<<>>))
    /\ UNCHANGED <<conf_vars, store_vars, kw_vars, deleted, ui_vars>>

\* get_chat, then chat.document_count = count and save_chat
UpdateDocumentCount(user_id, count) ==
    /\ op = "idle"
    /\ chat_file' = IF get_chat(user_id).exists
                    THEN save_chat(user_id,
                                   [get_chat(user_id) EXCEPT !.document_count = count])
                    ELSE chat_file
    /\ Call("update_document_count", [user_id |-> user_id, count |-> count],
            Returned(<<>>))
    /\ UNCHANGED <<conf_vars, store_vars, kw_vars, deleted, ui_vars>>

ListChats(user_id) ==
    /\ op = "idle"
    /\ Call("list_chats", [user_id |-> user_id], Returned(list_chats(user_id)))
    /\ UNCHANGED <<conf_vars, store_vars, kw_vars, deleted, chat_file, ui_vars>>

SearchChats(user_id, query) ==
    /\ op = "idle"
    /\ Call("search_chats", [user_id |-> user_id, query |-> query],
            Returned(search_chats(user_id, query)))
    /\ UNCHANGED <<conf_vars, store_vars, kw_vars, deleted, chat_file, ui_vars>>

ManagerNext ==
    \/ \E embed_ok \in BOOLEAN : AddDocuments(<<DocA, DocB>>, embed_ok)
    \/ \E user_id \in Users : GetChat(user_id)
    \/ \E user_id \in Users, chat \in Chats : SaveChat(user_id, chat)
    \/ \E user_id \in Users : DeleteChat(user_id)
    \/ \E user_id \in Users, title \in Titles : UpdateChatTitle(user_id, title)
    \/ \E user_id \in Users, role \in Roles, content \in Contents :
          AddMessage(user_id, role, content)
    \/ \E user_id \in Users, count \in 0..1 : UpdateDocumentCount(user_id, count)
    \/ \E user_id \in Users : ListChats(user_id)
    \/ \E user_id \in Users, query \in TitleQueries : SearchChats(user_id, query)
    \/ Return

ManagerSpec == Init /\ [][ManagerNext]_vars

(***************************************************************************)
(* RerankerService (reranker.py).  The cross-encoder is a collaborator: a  *)
(* call is given the score the model has for each text (scorer), the query *)
(* being fixed for the call.  Scores are integers; a result's score is     *)
(* <<numerator, denominator>>.                                             *)
(***************************************************************************)
TOP_K_RERANK == 5

RERANK_WEIGHT == 7

ORIGINAL_WEIGHT == 3

WeightScale == RERANK_WEIGHT + ORIGINAL_WEIGHT

\* top_k or config.TOP_K_RERANK
rerank_top_k(top_k) == IF top_k = 0 THEN TOP_K_RERANK ELSE top_k

\* an outcome and the number of self.model.predict calls made for it
Predicted(outcome, calls) ==
    [status |-> outcome.status, error |-> outcome.error,
     results |-> outcome.results, predict_calls |-> calls]

\* pairs = [(query, result.document.content) ...]; self.model.predict(pairs)
predict(scorer, results) ==
    [i \in DOMAIN results |-> scorer[results[i].document.content]]

\* a faulty variant: the single result is scored and tagged like any other
single_reranked(results, top_k) ==
    Predicted(Returned([i \in DOMAIN Take(results, rerank_top_k(top_k)) |->
                           [results[i] EXCEPT !.search_type = "reranked"]]),
              1)

\* if len(results) <= 1: return results[:top_k]
short_input(results, top_k) ==
    Predicted(Returned(Take(results, rerank_top_k(top_k))), 0)

\* a faulty variant: the scored results are not sorted
reranked_in_input_order(results, scores, k) ==
    Predicted(Returned([i \in DOMAIN Take(results, k) |->
                           [document    |-> results[i].document,
                            score       |-> <<scores[i], 1>>,
                            search_type |-> "reranked"]]),
              1)

\* the new SearchResult of each of the first k positions of order
rescored(results, scores, order, denominator) ==
    [i \in DOMAIN order |->
        [document    |-> results[order[i]].document,
         score       |-> <<scores[order[i]], denominator>>,
         search_type |-> "reranked"]]

\* scored_results.sort(key=lambda x: x[1], reverse=True) and the result loop
reranked(results, scores, k) ==
    Predicted(Returned(rescored(results, scores,
                                Take(sorted_desc([i \in DOMAIN results |-> i],
                                                 scores), k),
                                1)),
              1)

rerank(query, results, top_k, scorer) ==
    IF results = <<>> THEN Predicted(Returned(<<>>), 0)
    ELSE IF Len(results) <= 1 THEN short_input(results, top_k)
    ELSE reranked(results, predict(scorer, results), rerank_top_k(top_k))

RECURSIVE LcmOf(_)
LcmOf(S) ==
    IF S = {} THEN 1
    ELSE LET x == CHOOSE y \in S : TRUE IN Lcm(x, LcmOf(S \ {x}))

\* max_score - min_score if max_score != min_score else 1
score_range(rerank_scores) ==
    IF MaxScore(rerank_scores) # 0 - MaxScore([i \in DOMAIN rerank_scores |->
                                                  0 - rerank_scores[i]])
    THEN MaxScore(rerank_scores)
            + MaxScore([i \in DOMAIN rerank_scores |-> 0 - rerank_scores[i]])
    ELSE 1

\* a faulty variant: the cross-encoder scores are scaled but not shifted
combined_scores_unshifted(results, rerank_scores, range, min_score, scale) ==
    [idx \in DOMAIN results |->
        RERANK_WEIGHT * rerank_scores[idx] * scale
        + ORIGINAL_WEIGHT * range * results[idx].score[1]
              * (scale \div results[idx].score[2])]

\* rerank_weight * normalized_rerank_scores[idx] + original_weight *
\* result.score, for every idx, over the one denominator
\* WeightScale * range * scale
combined_scores(results, rerank_scores, range, min_score, scale) ==
    [idx \in DOMAIN results |->
        RERANK_WEIGHT * (rerank_scores[idx] - min_score) * scale
        + ORIGINAL_WEIGHT * range * results[idx].score[1]
              * (scale \div results[idx].score[2])]

combined(results, combined_score, denominator, k) ==
    Predicted(Returned(rescored(results, combined_score,
                                Take(sorted_desc([i \in DOMAIN results |-> i],
                                                 combined_score), k),
                                denominator)),
              1)

blend(results, rerank_scores, range, scale, k) ==
    combined(results,
             combined_scores(results, rerank_scores, range,
                             0 - MaxScore([i \in DOMAIN rerank_scores |->
                                              0 - rerank_scores[i]]),
                             scale),
             WeightScale * range * scale, k)

rerank_with_original_scores(query, results, top_k, scorer) ==
    IF results = <<>> THEN Predicted(Returned(<<>>), 0)
    ELSE IF Len(results) <= 1 THEN short_input(results, top_k)
    ELSE blend(results, predict(scorer, results),
               score_range(predict(scorer, results)),
               LcmOf({results[i].score[2] : i \in DOMAIN results}),
               rerank_top_k(top_k))

\* the candidates handed to the reranker: results of a search
RerankCandidates ==
    {VectorResult("x"), KeywordResult("y"),
     [VectorResult("z") EXCEPT !.score = <<1, 2>>]}

RerankTexts == {c.document.content : c \in RerankCandidates}

ScoreValues == {-1, 0, 1}

Scorers == [RerankTexts -> ScoreValues]

Rerank(query, results, top_k, scorer) ==
    /\ op = "idle"
    /\ Call("rerank",
            [query |-> query, results |-> results, top_k |-> top_k,
             scorer |-> scorer],
            rerank(query, results, top_k, scorer))
    /\ UNCHANGED <<conf_vars, store_vars, kw_vars, deleted, chat_file, ui_vars>>

RerankWithOriginalScores(query, results, top_k, scorer) ==
    /\ op = "idle"
    /\ Call("rerank_with_original_scores",
            [query |-> query, results |-> results, top_k |-> top_k,
             scorer |-> scorer],
            rerank_with_original_scores(query, results, top_k, scorer))
    /\ UNCHANGED <<conf_vars, store_vars, kw_vars, deleted, chat_file, ui_vars>>

RerankNext ==
    \/ \E query \in Queries, results \in SeqsUpTo(RerankCandidates, MaxList),
          top_k \in 0..MaxTopK, scorer \in Scorers :
          \/ Rerank(query, results, top_k, scorer)
          \/ RerankWithOriginalScores(query, results, top_k, scorer)
    \/ Return

RerankSpec == Init /\ [][RerankNext]_vars

(***************************************************************************)
(* LLMService.generate_similar_queries (llm.py 396-447).  The text         *)
(* generation provider is a collaborator: its construction raises, its     *)
(* generate call raises, or it returns a response, a string.  Strings of   *)
(* the response are sequences of characters.                               *)
(***************************************************************************)
MaxLines == 2

Whitespace == {" ", "\n", "\t"}

\* the characters line.lstrip removes: digits, ". - ) *", the bullet
\* character (written "bullet") and the space
PrefixChars == {"0", "1", "2", "3", "4", "5", "6", "7", "8", "9",
                ".", "-", ")", "*", "bullet", " "}

MinVariantLen == 5

RECURSIVE lstrip(_, _)
lstrip(text, chars) ==
    IF text # <<>> /\ Head(text) \in chars THEN lstrip(Tail(text), chars)
    ELSE text

RECURSIVE rstrip(_, _)
rstrip(text, chars) ==
    IF text # <<>> /\ text[Len(text)] \in chars
    THEN rstrip(SubSeq(text, 1, Len(text) - 1), chars)
    ELSE text

\* str.strip()
strip(text) == rstrip(lstrip(text, Whitespace), Whitespace)

\* text.split('\n'), the line being read carried in line
RECURSIVE split_from(_, _)
split_from(text, line) ==
    IF text = <<>> THEN <<line>>
    ELSE IF Head(text) = "\n" THEN <<line>> \o split_from(Tail(text), <<>>)
    ELSE split_from(Tail(text), Append(line, Head(text)))

split(text) == split_from(text, <<>>)

\* line.strip() then line.lstrip(...)
clean(line) == lstrip(strip(line), PrefixChars)

\* the loop over the lines: those kept after cleaning
similar_queries(response) ==
    SelectSeq([i \in DOMAIN split(strip(response)) |->
                  clean(split(strip(response))[i])],
              LAMBDA line : line # <<>> /\ Len(line) > MinVariantLen)

\* a faulty variant: the original query comes after the generated ones
original_last(query, similar, num_queries) ==
    Returned(Take(similar, num_queries - 1) \o <<query>>)

\* similar_queries[:num_queries - 1] and [query] + similar_queries
original_first(query, similar, num_queries) ==
    Returned(<<query>> \o Take(similar, num_queries - 1))

\* a faulty variant: the collaborator's exception leaves the call
propagate(query) == Raised("Exception")

\* except Exception: return [query]
fallback(query) == Returned(<<query>>)

generate_similar_queries(query, num_queries, collaborator) ==
    IF collaborator.kind # "returns" THEN fallback(query)
    ELSE original_first(query, similar_queries(collaborator.response),
                        num_queries)

\* lines a provider may write, with what is expected of each
NumberedLine == <<" ", "1", ".", " ", "a", "p", "p", "l", "e", "s", " ">>

ShortLine == <<"-", " ", "p", "e", "a", "r">>

PlainLine == <<"b", "a", "n", "a", "n", "a", "s">>

DigitsLine == <<"2", "0", "2", "4", " ", "p", "l", "a", "n", "s">>

BlankLine == <<" ">>

Lines == {NumberedLine, ShortLine, PlainLine, DigitsLine, BlankLine}

RECURSIVE join(_)
join(lines) ==
    IF lines = <<>> THEN <<>>
    ELSE IF Len(lines) = 1 THEN lines[1]
    ELSE lines[1] \o <<"\n">> \o join(Tail(lines))

Collaborators ==
    {[kind |-> "init_raises", lines |-> <<>>, response |-> <<>>],
     [kind |-> "generate_raises", lines |-> <<>>, response |-> <<>>]}
    \cup {[kind |-> "returns", lines |-> lines, response |-> join(lines)] :
             lines \in SeqsUpTo(Lines, MaxLines)}

\* what the provider does in a call, given the state of the service
ProviderOutcomes(service) ==
    {collaborator \in Collaborators :
        (collaborator.kind = "init_raises") <=> provider_raises(service)}

GenerateSimilarQueries(query, num_queries, collaborator) ==
    /\ op = "idle"
    /\ llm_service.init_calls < MaxInits
    /\ collaborator \in ProviderOutcomes(llm_service)
    /\ llm_service' = provider(llm_service)
    /\ Call("generate_similar_queries",
            [query |-> query, num_queries |-> num_queries,
             collaborator |-> collaborator],
            generate_similar_queries(query, num_queries, collaborator))
    /\ UNCHANGED <<conf_vars, store_vars, kw_vars, deleted, chat_file, messages>>

\* return self.provider.generate(...): nothing is caught
generate_response(collaborator) ==
    IF collaborator.kind = "init_raises" THEN Raised("ValueError")
    ELSE IF collaborator.kind = "generate_raises" THEN Raised("Exception")
    ELSE Returned(collaborator.response)

GenerateResponse(collaborator) ==
    /\ op = "idle"
    /\ llm_service.init_calls < MaxInits
    /\ collaborator \in ProviderOutcomes(llm_service)
    /\ llm_service' = provider(llm_service)
    /\ Call("generate_response", [collaborator |-> collaborator],
            generate_response(collaborator))
    /\ UNCHANGED <<conf_vars, store_vars, kw_vars, deleted, chat_file, messages>>

Quotes == {"\"", "'"}

\* title[:50] of the stripped reply; the first message on any exception
generate_chat_title(first_message, collaborator) ==
    IF collaborator.kind # "returns" THEN Returned(first_message)
    ELSE Returned(Take(strip(rstrip(lstrip(strip(collaborator.response),
                                           Quotes), Quotes)), 50))

GenerateChatTitle(first_message, collaborator) ==
    /\ op = "idle"
    /\ llm_service.init_calls < MaxInits
    /\ collaborator \in ProviderOutcomes(llm_service)
    /\ llm_service' = provider(llm_service)
    /\ Call("generate_chat_title",
            [first_message |-> first_message, collaborator |-> collaborator],
            generate_chat_title(first_message, collaborator))
    /\ UNCHANGED <<conf_vars, store_vars, kw_vars, deleted, chat_file, messages>>

\* app.get_llm_service: a new LLMService for the selected provider
GetLLMService(name, api_key) ==
    /\ op = "idle"
    /\ llm_service' = LLMService(name, api_key)
    /\ Call("get_llm_service", [name |-> name, api_key |-> api_key],
            Returned(<<>>))
    /\ UNCHANGED <<conf_vars, store_vars, kw_vars, deleted, chat_file, messages>>

LLMNext ==
    \/ \E query \in Queries, num_queries \in 1..(MaxQueries + 1),
          collaborator \in Collaborators :
          GenerateSimilarQueries(query, num_queries, collaborator)
    \/ \E collaborator \in Collaborators : GenerateResponse(collaborator)
    \/ \E first_message \in Queries, collaborator \in Collaborators :
          GenerateChatTitle(first_message, collaborator)
    \/ \E name \in Providers, api_key \in BOOLEAN : GetLLMService(name, api_key)
    \/ Return

LLMSpec == Init /\ [][LLMNext]_vars

(***************************************************************************)
(* The chat page of the owner's session (components/chat.py, sidebar.py).  *)
(* A submission is one run of _render_chat_input; what the search and the  *)
(* provider do in it is the reply.  main builds a new LLMService with the  *)
(* session's settings before the page is rendered.                         *)
(***************************************************************************)
Replies ==
    {[kind |-> "search_raises", content |-> "", title |-> <<>>],
     [kind |-> "generate_raises", content |-> "", title |-> <<>>]}
    \cup {[kind |-> "answers", content |-> "answer", title |-> title] :
              title \in Titles}

\* the service after the handler's reads of its provider: one in
\* generate_similar_queries, one in generate_response_stream unless the
\* search raised, one in generate_chat_title after a first answer
service_after(service, use_multi_query, reply, titled) ==
    LET queried  == IF use_multi_query THEN provider(service) ELSE service
        streamed == IF reply.kind = "search_raises" THEN queried
                    ELSE provider(queried)
    IN IF titled THEN provider(streamed) ELSE streamed

\* whether the try block of the handler ends in except Exception
submission_fails(service, use_multi_query, reply) ==
    \/ reply.kind # "answers"
    \/ provider_raises(IF use_multi_query THEN provider(service) ELSE service)

\* chat_manager.add_message(chat.id, MessageRole.ASSISTANT, full_response,
\* search_results)
answer_saved(file, user_id, content) ==
    add_message_to(file, user_id, "assistant", content)

\* update_chat_title after the first exchange
title_updated(file, user_id, title, first) ==
    IF first /\ read_chat(file, user_id).exists
    THEN write_chat(file, user_id, [read_chat(file, user_id) EXCEPT !.title = title])
    ELSE file

Submit(prompt, use_multi_query, reply) ==
    /\ op = "idle"
    /\ get_chat(Owner).exists
    /\ document_count > 0
    /\ Len(messages) < MaxMessages
    /\ Len(chat_file.messages) < MaxMessages
    /\ \E service \in {LLMService(llm_service.name, llm_service.api_key)},
          asked \in {add_message_to(chat_file, Owner, "user", prompt)} :
          IF submission_fails(service, use_multi_query, reply)
          THEN /\ messages' = messages \o <<Message("user", prompt),
                                            Message("assistant", "error")>>
               /\ chat_file' = asked
               /\ llm_service' = service_after(service, use_multi_query, reply, FALSE)
               /\ Call("submit",
                       [prompt |-> prompt, use_multi_query |-> use_multi_query,
                        reply |-> reply, failed |-> TRUE,
                        in_step |-> chat_file.messages = messages],
                       Returned(<<>>))
          ELSE /\ messages' = messages \o <<Message("user", prompt),
                                            Message("assistant", reply.content)>>
               /\ chat_file' = title_updated(answer_saved(asked, Owner, reply.content),
                                             Owner, reply.title, Len(messages) = 0)
               /\ llm_service' = service_after(service, use_multi_query, reply,
                                               Len(messages) = 0)
               /\ Call("submit",
                       [prompt |-> prompt, use_multi_query |-> use_multi_query,
                        reply |-> reply, failed |-> FALSE,
                        in_step |-> chat_file.messages = messages],
                       Returned(<<>>))
    /\ UNCHANGED <<conf_vars, store_vars, kw_vars, deleted>>

\* sidebar: the chat's button loads the persisted messages into the session
SelectChat ==
    /\ op = "idle"
    /\ messages' = IF get_chat(Owner).exists THEN get_chat(Owner).messages
                   ELSE messages
    /\ Call("select_chat", [user_id |-> Owner], Returned(<<>>))
    /\ UNCHANGED <<conf_vars, store_vars, kw_vars, deleted, chat_file, llm_service>>

\* sidebar settings: the provider and key the next LLMService is built with
SubmitNext ==
    \/ \E embed_ok \in BOOLEAN : AddDocuments(<<DocA, DocB>>, embed_ok)
    \/ \E prompt \in Contents, use_multi_query \in BOOLEAN, reply \in Replies :
          Submit(prompt, use_multi_query, reply)
    \/ SelectChat
    \/ \E name \in Providers, api_key \in BOOLEAN : GetLLMService(name, api_key)
    \/ Return

SubmitSpec == Init /\ [][SubmitNext]_vars

(***************************************************************************)
(* LLMService.format_context (llm.py).  Strings are sequences of           *)
(* characters; a search result is given by the source file, page number    *)
(* and content of its document.                                            *)
(***************************************************************************)
MaxResults == 2

DefaultContextChars == 80000

TruncationBuffer == 50

MinPartial == 500

Separator == <<"\n", "\n", "-", "-", "-", "\n", "\n">>

TruncatedMark == <<".", ".", ".", " ", "[", "t", "r", "u", "n", "c", "a", "t", "e", "d", "]">>

Digits == <<"0", "1", "2", "3", "4", "5", "6", "7", "8", "9">>

\* str(n) of a natural number
RECURSIVE str(_)
str(n) ==
    IF n < 10 THEN <<Digits[n + 1]>>
    ELSE str(n \div 10) \o <<Digits[(n % 10) + 1]>>

\* "[Document i: source_file]" or "[Document i: source_file, Page n]"
source_info(i, result) ==
    <<"[", "D", "o", "c", "u", "m", "e", "n", "t", " ">> \o str(i) \o <<":", " ">>
    \o result.source_file
    \o (IF result.page_number # 0
        THEN <<",", " ", "P", "a", "g", "e", " ">> \o str(result.page_number)
        ELSE <<>>)
    \o <<"]">>

\* f"{source_info}\n{result.document.content}"
chunk_content(i, result) == source_info(i, result) \o <<"\n">> \o result.content

\* separator.join(parts)
RECURSIVE join_with(_, _)
join_with(separator, parts) ==
    IF parts = <<>> THEN <<>>
    ELSE IF Len(parts) = 1 THEN parts[1]
    ELSE parts[1] \o separator \o join_with(separator, Tail(parts))

\* f"{source_info}\n{content[:remaining_space]}... [truncated]"
truncated(i, result, remaining_space) ==
    source_info(i, result) \o <<"\n">> \o Take(result.content, remaining_space)
    \o TruncatedMark

\* the loop of format_context from result i on: the parts appended
RECURSIVE context_parts(_, _, _, _)
context_parts(search_results, i, current_length, max_context_chars) ==
    IF i > Len(search_results) THEN <<>>
    ELSE LET chunk == chunk_content(i, search_results[i])
             chunk_length == Len(chunk) + 7
             remaining_space == max_context_chars - current_length - TruncationBuffer
         IN IF current_length + chunk_length > max_context_chars
            THEN IF remaining_space > MinPartial
                 THEN <<truncated(i, search_results[i], remaining_space)>>
                 ELSE <<>>
            ELSE <<chunk>> \o context_parts(search_results, i + 1,
                                            current_length + chunk_length,
                                            max_context_chars)

NoDocumentsFound ==
    <<"[", "N", "O", " ", "R", "E", "L", "E", "V", "A", "N", "T", " ", "D",
      "O", "C", "U", "M", "E", "N", "T", "S", " ", "F", "O", "U", "N", "D",
      " ", "-", " ", "T", "h", "e", " ", "s", "e", "a", "r", "c", "h", " ",
      "d", "i", "d", " ", "n", "o", "t", " ", "f", "i", "n", "d", " ", "a",
      "n", "y", " ", "d", "o", "c", "u", "m", "e", "n", "t", "s", " ", "m",
      "a", "t", "c", "h", "i", "n", "g", " ", "t", "h", "e", " ", "u", "s",
      "e", "r", "'", "s", " ", "q", "u", "e", "r", "y", ".", " ", "P", "l",
      "e", "a", "s", "e", " ", "i", "n", "f", "o", "r", "m", " ", "t", "h",
      "e", " ", "u", "s", "e", "r", " ", "t", "h", "a", "t", " ", "n", "o",
      " ", "r", "e", "l", "e", "v", "a", "n", "t", " ", "i", "n", "f", "o",
      "r", "m", "a", "t", "i", "o", "n", " ", "w", "a", "s", " ", "f", "o",
      "u", "n", "d", " ", "i", "n", " ", "t", "h", "e", "i", "r", " ", "u",
      "p", "l", "o", "a", "d", "e", "d", " ", "d", "o", "c", "u", "m", "e",
      "n", "t", "s", ".", "]">>

format_context(search_results, max_context_chars) ==
    IF search_results = <<>> THEN Returned(NoDocumentsFound)
    ELSE Returned(join_with(Separator,
                            context_parts(search_results, 1, 0, max_context_chars)))

\* a text of n characters
Text(n) == [i \in 1..n |-> "x"]

ShortFile == <<"a", ".", "p", "d", "f">>

LongFile == <<"a", "n", "n", "u", "a", "l", "_", "r", "e", "p", "o", "r", "t", "_", "2", "0", "2", "4", ".", "p", "d", "f">>

ContextResults ==
    {[source_file |-> source_file, page_number |-> page_number,
      content |-> Text(length)] :
        source_file \in {ShortFile, LongFile}, page_number \in {0, 3},
        length \in {20, 700}}

ContextLimits == {100, 650, 800, 1400, DefaultContextChars}

FormatContext(search_results, max_context_chars) ==
    /\ op = "idle"
    /\ Call("format_context",
            [search_results |-> search_results,
             max_context_chars |-> max_context_chars],
            format_context(search_results, max_context_chars))
    /\ UNCHANGED <<conf_vars, store_vars, kw_vars, deleted, chat_file, ui_vars>>

ContextNext ==
    \/ \E search_results \in SeqsUpTo(ContextResults, MaxResults),
          max_context_chars \in ContextLimits :
          FormatContext(search_results, max_context_chars)
    \/ Return

ContextSpec == Init /\ [][ContextNext]_vars

(***************************************************************************)
(* VectorStoreService on its own (vector_store.py).                        *)
(***************************************************************************)
\* results["ids"][0] and results["distances"][0] of self.collection.query
store_reply(query, ids) ==
    [i \in DOMAIN ids |->
        [id |-> ids[i], distance |-> distance(query, collection[ids[i]])]]

VsAddDocuments(docs, embed_ok) ==
    /\ op = "idle"
    /\ Cardinality(DOMAIN collection) + Len(docs) <= MaxDocs
    /\ \E v \in {vs_add_documents(docs, embed_ok)} :
          /\ SetStore(v)
          /\ Call("vs_add_documents", [documents |-> docs, embed_ok |-> embed_ok],
                  v.outcome)
    /\ UNCHANGED <<conf_vars, kw_vars, deleted, chat_file, ui_vars>>

VsDeleteDocuments(doc_ids) ==
    /\ op = "idle"
    /\ \E v \in {vs_delete_documents(doc_ids)} :
          /\ SetStore(v)
          /\ Call("vs_delete_documents", [doc_ids |-> doc_ids], v.outcome)
    /\ UNCHANGED <<conf_vars, kw_vars, deleted, chat_file, ui_vars>>

VsClear ==
    /\ op = "idle"
    /\ SetStore(vs_clear)
    /\ Call("vs_clear", <<>>, vs_clear.outcome)
    /\ UNCHANGED <<conf_vars, kw_vars, deleted, chat_file, ui_vars>>

\* VectorStoreService(chat_id) in a new process
VsRestart ==
    /\ op = "idle"
    /\ SetStore(vs_load)
    /\ Call("vs_restart", <<>>, Returned(<<>>))
    /\ UNCHANGED <<conf_vars, kw_vars, deleted, chat_file, ui_vars>>

VsSearch(query, top_k, embed_ok) ==
    /\ op = "idle"
    /\ Call("vs_search",
            [query |-> query, top_k |-> top_k, embed_ok |-> embed_ok,
             candidates |->
                 store_reply(query, collection_query(query, n_results(top_k)))],
            vs_search(query, top_k, embed_ok))
    /\ UNCHANGED <<conf_vars, store_vars, kw_vars, deleted, chat_file, ui_vars>>

VectorNext ==
    \/ \E docs \in Batches, embed_ok \in BOOLEAN : VsAddDocuments(docs, embed_ok)
    \/ \E doc_ids \in SUBSET Ids : VsDeleteDocuments(doc_ids)
    \/ VsClear
    \/ VsRestart
    \/ \E query \in KeywordQueries, top_k \in 0..MaxTopK, embed_ok \in BOOLEAN :
          VsSearch(query, top_k, embed_ok)
    \/ Return

VectorSpec == Init /\ [][VectorNext]_vars

(***************************************************************************)
(* Exact fractions <<numerator, denominator>> in lowest terms, for stating *)
(* the scores the properties below expect.                                 *)
(***************************************************************************)
Frac(n, d) == IF n = 0 THEN <<0, 1>> ELSE <<n \div Gcd(n, d), d \div Gcd(n, d)>>

FracAdd(a, b) ==
    LET l == Lcm(a[2], b[2])
    IN Frac(a[1] * (l \div a[2]) + b[1] * (l \div b[2]), l)

FracLess(a, b) == a[1] * b[2] < b[1] * a[2]

RECURSIVE FracSum(_, _)
FracSum(S, f) ==
    IF S = {} THEN <<0, 1>>
    ELSE LET x == CHOOSE y \in S : TRUE
         IN FracAdd(f[x], FracSum(S \ {x}, f))

\* weight / (rrf_k + rank), weight a fraction
Reciprocal(weight, rank) == Frac(weight[1], weight[2] * (rrf_k + rank))

ResultIds(results) == [i \in DOMAIN results |-> results[i].document.id]

Score(result) == Frac(result.score[1], result.score[2])

\* the results are in non-increasing order of score (one denominator for all)
NonIncreasing(results) ==
    \A i \in DOMAIN results : \A j \in DOMAIN results :
        i < j => /\ results[i].score[2] = results[j].score[2]
                 /\ results[i].score[1] >= results[j].score[1]

TheRank(results, id) == CHOOSE r \in RanksOf(results, id) : TRUE

\* the score _rrf_fusion gave id, against the closed form; strict says when
\* the score must exceed that of a document only in the vector list
FusedScoreIs(result, strict) ==
    LET id == result.document.id
        vr == RanksOf(args.vector_results, id)
        kr == RanksOf(args.keyword_results, id)
        alone == Reciprocal(vector_weight, TheRank(args.vector_results, id))
    IN /\ (Cardinality(vr) = 1 /\ kr = {}) => Score(result) = alone
       /\ (Cardinality(vr) = 1 /\ Cardinality(kr) = 1) =>
             /\ Score(result) =
                   FracAdd(alone, Reciprocal(keyword_weight,
                                             TheRank(args.keyword_results, id)))
             /\ strict => FracLess(alone, Score(result))
             /\ ~strict => Score(result) = alone

ExampleLists ==
    /\ op = "rrf_fusion"
    /\ ResultIds(args.vector_results) = <<"x", "y">>
    /\ ResultIds(args.keyword_results) = <<"y", "z">>
    /\ vector_weight[1] = keyword_weight[1]
    /\ rrf_k = 60

ExampleOrder == ExampleLists => ResultIds(out.results) = Take(<<"y", "x", "z">>, args.top_k)

\* C1 (as amended): in two-list fusion a document at rank r1 of the vector
\* list and rank r2 of the keyword list scores exactly w1/(k+r1) + w2/(k+r2);
\* that is strictly more than w1/(k+r1), the score of a document only in the
\* vector list at rank r1, when w2 > 0, and equal to it when w2 = 0.  For
\* [x, y] and [y, z] with equal weights and k = 60 the order is y, x, z.
C1_FusedScore ==
    /\ op = "rrf_fusion" =>
          \A i \in DOMAIN out.results :
              FusedScoreIs(out.results[i], keyword_weight[1] > 0)
    /\ ExampleOrder

\* C1 as stated: the fused score of a document in both lists is strictly
\* greater than w1/(k+r1) for every pair of weights.
C1_AlwaysStrictlyGreater ==
    /\ op = "rrf_fusion" =>
          \A i \in DOMAIN out.results : FusedScoreIs(out.results[i], TRUE)
    /\ ExampleOrder

\* the example of C1 fused in full: y is in both lists and comes first
C1_ExampleFused ==
    /\ ExampleLists
    /\ Len(out.results) >= 2
    /\ FracLess(Score(out.results[2]), Score(out.results[1]))

FusionInputs ==
    IF op = "rrf_fusion" THEN <<args.vector_results, args.keyword_results>>
    ELSE args.query_results_list

InputIds(lists) == UNION {Range(ResultIds(lists[q])) : q \in DOMAIN lists}

\* C2: both fusions return exactly min(topK, number of distinct ids in the
\* input lists) results, no id twice, in non-increasing order of fused score.
C2_FusionOutput ==
    op \in {"rrf_fusion", "multi_query_rrf_fusion"} =>
        /\ Len(out.results) = Min(args.top_k, Cardinality(InputIds(FusionInputs)))
        /\ NoRepeat(ResultIds(out.results))
        /\ Range(ResultIds(out.results)) \subseteq InputIds(FusionInputs)
        /\ NonIncreasing(out.results)

\* a fusion of three candidates, one of them twice in a list, cut to fewer
C2_Truncated ==
    /\ op = "rrf_fusion"
    /\ ~NoRepeat(ResultIds(args.keyword_results))
    /\ Cardinality(InputIds(FusionInputs)) > args.top_k
    /\ Len(out.results) = args.top_k
    /\ args.top_k >= 2

\* C3: after any sequence of add_documents, delete_documents and clear
\* (calls that raise part-way included) the ids the lexical index holds are
\* the ids the vector index holds.
C3_SameIds == Range(SeqIds(documents)) = DOMAIN collection

SearchReturned == op \in {"search", "multi_query_search"} /\ out.status = "ok"

\* C4: after delete_documents(ids) no search returns a document whose id is
\* in ids (until it is added again), and document_count has dropped by the
\* number of ids that were present.
C4_DeletedStayGone ==
    /\ SearchReturned => Range(ResultIds(out.results)) \cap deleted = {}
    /\ op = "delete_documents" =>
          document_count = args.count_before
                             - Cardinality(args.doc_ids \cap args.held_before)

\* C5: each document id occurs at most once in the lexical index and at
\* most once in the vector index and its cache, whatever was added.
C5_UniqueIds ==
    /\ NoRepeat(SeqIds(documents))
    /\ \A id \in DOMAIN document_cache : document_cache[id].id = id

\* C6: a search whose embedding step fails is not aborted: it returns, with
\* the keyword results when the keyword index is enabled.
C6_Degrades ==
    (op = "search" /\ args.use_vector /\ ~args.embed_ok) =>
        /\ out.status = "ok"
        /\ args.use_keyword =>
              Range(ResultIds(out.results))
                = Range(ResultIds(Take(ks_search(args.query,
                                                 effective_top_k(args.top_k) * 2).results,
                                       effective_top_k(args.top_k))))

\* C7: for every pair of weights the construction succeeds and the stored
\* weights sum to 1.
C7_ConstructionSucceeds ==
    op = "init" =>
        /\ ctor = "ok"
        /\ FracAdd(Frac(vector_weight[1], vector_weight[2]),
                   Frac(keyword_weight[1], keyword_weight[2])) = <<1, 1>>

HybridLists(queries, top_k, embed_ok) ==
    [i \in DOMAIN queries |-> search(queries[i], top_k, TRUE, TRUE, embed_ok).results]

\* the sum over the lists that contain id of (1/M) / (k + rank in the list)
MultiQueryScore(lists, id) ==
    FracSum({q \in DOMAIN lists : RanksOf(lists[q], id) # {}},
            [q \in DOMAIN lists |->
                IF RanksOf(lists[q], id) = {} THEN <<0, 1>>
                ELSE Reciprocal(<<1, Len(lists)>>, TheRank(lists[q], id))])

\* what C8 expects of out.results when kept are the non-empty per-query lists
FusedFrom(kept, k) ==
    /\ kept = <<>> => out.results = <<>>
    /\ Len(out.results) = Min(k, Cardinality(InputIds(kept)))
    /\ NoRepeat(ResultIds(out.results))
    /\ NonIncreasing(out.results)
    /\ \A i \in DOMAIN out.results :
          /\ out.results[i].search_type = "multi_query_hybrid"
          /\ out.results[i].document.id \in InputIds(kept)
          /\ Score(out.results[i]) = MultiQueryScore(kept, out.results[i].document.id)

RankedDifferently(lists) ==
    \E id \in Ids : /\ RanksOf(lists[1], id) # {}
                     /\ RanksOf(lists[2], id) # {}
                     /\ RanksOf(lists[1], id) # RanksOf(lists[2], id)

C9_SingleQuery ==
    (op = "multi_query_search" /\ Len(args.queries) = 1) =>
        out = search(args.queries[1], args.top_k, TRUE, TRUE, args.embed_ok)

\* one query that both indexes answer
C9_SingleQueryAnswered ==
    /\ op = "multi_query_search"
    /\ Len(args.queries) = 1
    /\ Len(out.results) >= 2
    /\ ks_search(args.queries[1], 2).results # <<>>

\* what C10 expects of out, vector and keyword being the results of the two
\* indexes' searches for 2*topK candidates
OneIndexOrFused(vector, keyword, k) ==
    /\ (args.use_vector /\ ~args.use_keyword) =>
          /\ out.results = Take(vector, k)
          /\ out.queried = {"vector"}
    /\ (~args.use_vector /\ args.use_keyword) =>
          /\ out.results = Take(keyword, k)
          /\ out.queried = {"keyword"}
    /\ (args.use_vector /\ args.use_keyword) =>
          /\ Len(out.results) = Min(k, Cardinality(InputIds(<<vector, keyword>>)))
          /\ \A i \in DOMAIN out.results : out.results[i].search_type = "hybrid"
          /\ NonIncreasing(out.results)

\* C10: search with one index enabled returns the first topK results of
\* that index's search for 2*topK candidates, unchanged, and does not query
\* the other index; with both enabled it returns the topK fused results,
\* tagged "hybrid".
C10_SearchModes ==
    (op = "search" /\ out.status = "ok") =>
        OneIndexOrFused(vs_search(args.query, 2 * effective_top_k(args.top_k), TRUE).results,
                        ks_search(args.query, 2 * effective_top_k(args.top_k)).results,
                        effective_top_k(args.top_k))

\* a keyword-only search answered while the embedding service is down
C10_KeywordOnly ==
    /\ op = "search"
    /\ ~args.use_vector
    /\ args.use_keyword
    /\ ~args.embed_ok
    /\ out.status = "ok"
    /\ out.results # <<>>
    /\ out.results[1].search_type = "keyword"

\* every word of the query is a stopword or at most one character long
OnlyStopwordsOrShort(query) ==
    \A i \in DOMAIN query :
        Len(lower(query[i])) <= 1 \/ lower(query[i]) \in stopwords

\* C11: the keyword search returns an empty list, without error, for every
\* query whose tokenization is empty, whatever documents are indexed.
C11_EmptyTokenization ==
    (op = "ks_search" /\ OnlyStopwordsOrShort(args.query)) => out = Returned(<<>>)

\* a query of stopwords and one-letter words searched on an index with hits
C11_StopwordQuery ==
    /\ op = "ks_search"
    /\ OnlyStopwordsOrShort(args.query)
    /\ args.query # <<>>
    /\ ks_search(<<"apple">>, 0).results # <<>>

\* the raw BM25 score the index gives a returned document
HasRawScore(result) ==
    \E idx \in DOMAIN documents :
        /\ documents[idx] = result.document
        /\ get_scores(bm25.corpus, tokenize(args.query))[idx] = result.score[1]

\* C12: when the keyword search returns a non-empty list the first score
\* is exactly 1, every score is in (0, 1], the scores are non-increasing,
\* and no document with a non-positive raw score is returned.
C12_NormalizedScores ==
    (op = "ks_search" /\ out.results # <<>>) =>
        /\ out.results[1].score[1] = out.results[1].score[2]
        /\ NonIncreasing(out.results)
        /\ \A i \in DOMAIN out.results :
              /\ out.results[i].score[2] > 0
              /\ 0 < out.results[i].score[1]
              /\ out.results[i].score[1] <= out.results[i].score[2]
              /\ HasRawScore(out.results[i])

\* two documents returned, the second with a lower score than the first
C12_TwoScores ==
    /\ op = "ks_search"
    /\ Len(out.results) >= 2
    /\ out.results[2].score[1] < out.results[1].score[1]
    /\ Len(documents) > Len(out.results)

\* C13: with a ("apple banana") and b ("banana cherry") added to an empty
\* index, a keyword search for "banana" returns both a and b, each with a
\* positive score.
C13_BananaFindsBoth ==
    (/\ op = "ks_search"
     /\ args.query = <<"banana">>
     /\ args.top_k = 0
     /\ documents = <<DocA, DocB>>
     /\ bm25 = BM25Okapi(tokenized_corpus)) =>
        /\ out.status = "ok"
        /\ Range(ResultIds(out.results)) = {"a", "b"}
        /\ \A i \in DOMAIN out.results : out.results[i].score[1] > 0

\* C14: a KeywordSearchService constructed anew for the same conversation
\* holds the documents and tokenizations the previous instance held, in the
\* same order, and answers every query as the previous instance did.
C14_RestartKeepsIndex ==
    op = "ks_restart" =>
        /\ documents = args.documents
        /\ tokenized_corpus = args.tokenized_corpus
        /\ all_searches = args.searches

NothingPersisted ==
    /\ collection = EmptyMap
    /\ cache_file = NoFile
    /\ index_file = NoFile

ReturnedNothing(outcome) == outcome.status = "ok" /\ outcome.results = <<>>

EverySearchEmpty ==
    /\ \A query \in Queries, top_k \in 0..MaxTopK,
          use_vector \in BOOLEAN, use_keyword \in BOOLEAN :
          ReturnedNothing(search(query, top_k, use_vector, use_keyword, TRUE))
    /\ \A queries \in SeqsUpTo(Queries, MaxQueries), top_k \in 0..MaxTopK :
          ReturnedNothing(multi_query_search(queries, top_k, TRUE))

\* C15: delete_chat by the owner removes the chat file, the keyword
\* snapshot, the vector collection and the document cache; a service
\* constructed afterwards for the same conversation id, nothing having been
\* stored in between, counts 0 documents and answers every search with an
\* empty list.
C15_DeleteChatRemovesIndexes ==
    /\ [](op = "delete_chat" /\ args.chat.exists =>
             ~chat_file.exists /\ NothingPersisted)
    /\ [][NothingPersisted /\ op' = "get_hybrid_search" =>
             (document_count = 0 /\ EverySearchEmpty)']_vars

C15_OwnerDeletedIndexedChat ==
    /\ op = "delete_chat"
    /\ args.chat.exists
    /\ args.user_id = Owner
    /\ args.count_before > 0
    /\ args.index_before

\* the results are some of the candidates, no candidate used twice
DrawnFrom(results, candidates) ==
    \E f \in [DOMAIN results -> DOMAIN candidates] :
        /\ \A i, j \in DOMAIN results : f[i] = f[j] => i = j
        /\ \A i \in DOMAIN results :
              results[i].document = candidates[f[i]].document

\* C16: rerank of two or more candidates returns min(topK, candidates)
\* results, each a candidate's document and no candidate twice, in
\* non-increasing order of the model's score for its text, tagged "reranked"
\* with that score; rerank of no candidates returns none.
C16_Rerank ==
    op = "rerank" =>
        /\ out.status = "ok"
        /\ args.results = <<>> => out.results = <<>>
        /\ Len(args.results) >= 2 =>
              /\ Len(out.results)
                    = Min(rerank_top_k(args.top_k), Len(args.results))
              /\ DrawnFrom(out.results, args.results)
              /\ NonIncreasing(out.results)
              /\ \A i \in DOMAIN out.results :
                    /\ out.results[i].search_type = "reranked"
                    /\ out.results[i].score
                          = <<args.scorer[out.results[i].document.content], 1>>

C16_Reordered ==
    /\ op = "rerank"
    /\ Len(args.results) = 2
    /\ Len(out.results) = 2
    /\ out.results[1].document = args.results[2].document
    /\ out.results[2].score[1] < out.results[1].score[1]

\* C17: rerank and rerank_with_original_scores of a single candidate return
\* that SearchResult as it is (document, score, tag) without calling the
\* cross-encoder.
C17_SingleUnchanged ==
    (op \in {"rerank", "rerank_with_original_scores"}
     /\ Len(args.results) = 1) =>
        /\ out.status = "ok"
        /\ out.results = args.results
        /\ out.predict_calls = 0

C17_SingleVector ==
    /\ op = "rerank_with_original_scores"
    /\ args.results = <<VectorResult("x")>>
    /\ args.top_k = 1

\* C18: when the provider cannot be constructed or its generate call raises,
\* generate_similar_queries returns the one-element list [query] and does
\* not raise.
C18_FallsBackToQuery ==
    (op = "generate_similar_queries" /\ args.collaborator.kind # "returns") =>
        out = Returned(<<args.query>>)

C18_ProviderFailed ==
    /\ op = "generate_similar_queries"
    /\ args.collaborator.kind = "init_raises"
    /\ args.num_queries > 1

\* what each line is expected to give: its variant, or <<>> when rejected
ExpectedVariant(line) ==
    IF line = NumberedLine THEN <<"a", "p", "p", "l", "e", "s">>
    ELSE IF line = PlainLine THEN PlainLine
    ELSE <<>>

ExpectedVariants(lines) ==
    SelectSeq([i \in DOMAIN lines |-> ExpectedVariant(lines[i])],
              LAMBDA variant : variant # <<>>)

\* C19: for num_queries >= 1 the list returned starts with the original
\* query, continues with the first accepted variants in the order they were
\* generated, and has at most num_queries elements.
C19_OriginalFirst ==
    op = "generate_similar_queries" =>
        /\ out.status = "ok"
        /\ out.results # <<>>
        /\ out.results[1] = args.query
        /\ Len(out.results) <= args.num_queries
        /\ Tail(out.results)
              = Take(ExpectedVariants(args.collaborator.lines),
                     args.num_queries - 1)

C19_Truncated ==
    /\ op = "generate_similar_queries"
    /\ args.collaborator.lines = <<PlainLine, NumberedLine>>
    /\ args.num_queries = 2
    /\ Len(out.results) = 2

NonDecreasingDistance(candidates) ==
    \A i, j \in DOMAIN candidates :
        i < j => candidates[i].distance <= candidates[j].distance

\* C20: VectorStoreService.search returns one result per candidate the
\* store returned, in the store's order, each tagged "vector" with score
\* 1 - d for the distance d the store reported (in hundredths: 100 - d over
\* 100); so the results are in non-increasing score order whenever the
\* distances are in non-decreasing order.
C20_VectorScores ==
    (op = "vs_search" /\ out.status = "ok") =>
        /\ Len(out.results) = Len(args.candidates)
        /\ \A i \in DOMAIN out.results :
              /\ out.results[i].document.id = args.candidates[i].id
              /\ out.results[i].search_type = "vector"
              /\ out.results[i].score[2] = 100
              /\ out.results[i].score[1] + args.candidates[i].distance = 100
        /\ NonDecreasingDistance(args.candidates) => NonIncreasing(out.results)

C20_TwoDistances ==
    /\ op = "vs_search"
    /\ Len(out.results) = 2
    /\ args.candidates[1].distance < args.candidates[2].distance
    /\ args.candidates[1].distance > 0
    /\ vs_document_count > 2

\* C21: VectorStoreService.search on an empty collection (never populated,
\* cleared, or emptied by deletions) returns an empty list and does not
\* raise, for every query and top_k, the embedding of the query succeeding.
C21_EmptyCollection ==
    (op = "vs_search" /\ args.embed_ok /\ collection = EmptyMap) =>
        out = Returned(<<>>)

C21_SearchAfterEmptied ==
    /\ op = "vs_search"
    /\ args.embed_ok
    /\ args.top_k > 0
    /\ collection = EmptyMap
    /\ cache_file.exists

\* the place at which id is first met when the lists are scanned in turn
Discovered(scanned, id) ==
    CHOOSE i \in DOMAIN scanned :
        /\ scanned[i].document.id = id
        /\ \A j \in 1..(i - 1) : scanned[j].document.id # id

TiesInDiscoveryOrder(results, scanned) ==
    \A i, j \in DOMAIN results :
        (i < j /\ results[i].score = results[j].score) =>
            Discovered(scanned, results[i].document.id)
                < Discovered(scanned, results[j].document.id)

\* C22: documents of equal fused score come out in the order in which
\* their ids were first met, scanning the vector list and then the keyword
\* list (for N lists: the lists in query order), each by rank.
C22_TiesInDiscoveryOrder ==
    /\ op = "rrf_fusion" =>
          TiesInDiscoveryOrder(out.results,
                               args.vector_results \o args.keyword_results)
    /\ op = "multi_query_rrf_fusion" =>
          TiesInDiscoveryOrder(out.results, concat(args.query_results_list))

C22_TiedAcrossLists ==
    /\ op = "rrf_fusion"
    /\ Len(out.results) = 2
    /\ out.results[1].score = out.results[2].score
    /\ ResultIds(args.vector_results) = <<out.results[1].document.id>>
    /\ ResultIds(args.keyword_results) = <<out.results[2].document.id>>

\* the output is the first k results of list, in its order, each scored
\* weight / (rrf_k + rank) and tagged "hybrid"
DegeneratesTo(list, weight, k) ==
    /\ Len(out.results) = Min(k, Len(list))
    /\ \A i \in DOMAIN out.results :
          /\ out.results[i].document = list[i].document
          /\ out.results[i].search_type = "hybrid"
          /\ Score(out.results[i]) = Reciprocal(weight, i)

OneListEmpty(vector_results, keyword_results, k) ==
    /\ (vector_results = <<>> /\ keyword_results = <<>>) => out.results = <<>>
    /\ (vector_results = <<>> /\ keyword_results # <<>>) =>
          DegeneratesTo(keyword_results, keyword_weight, k)
    /\ (vector_results # <<>> /\ keyword_results = <<>>) =>
          DegeneratesTo(vector_results, vector_weight, k)

BatchScores == {args.scorer[args.results[i].document.content] :
                   i \in DOMAIN args.results}

BatchMin == CHOOSE m \in BatchScores : \A x \in BatchScores : m <= x

BatchMax == CHOOSE m \in BatchScores : \A x \in BatchScores : x <= m

\* rerankWeight * (s - min) / (max - min) + originalWeight * priorScore, the
\* denominator being 1 when max = min
CombinedScore(candidate) ==
    FracAdd(Frac(RERANK_WEIGHT
                   * (args.scorer[candidate.document.content] - BatchMin),
                 WeightScale * (IF BatchMax = BatchMin THEN 1
                                ELSE BatchMax - BatchMin)),
            Frac(ORIGINAL_WEIGHT * candidate.score[1],
                 WeightScale * candidate.score[2]))

\* each result is a candidate with its combined score, no candidate twice
Blended(results, candidates) ==
    \E f \in [DOMAIN results -> DOMAIN candidates] :
        /\ \A i, j \in DOMAIN results : f[i] = f[j] => i = j
        /\ \A i \in DOMAIN results :
              /\ results[i].document = candidates[f[i]].document
              /\ Score(results[i]) = CombinedScore(candidates[f[i]])
              /\ BatchMax = BatchMin =>
                    Score(results[i])
                        = Frac(ORIGINAL_WEIGHT * candidates[f[i]].score[1],
                               WeightScale * candidates[f[i]].score[2])
        /\ BatchMax = BatchMin =>
              \A i, j \in DOMAIN results :
                  i < j => ~FracLess(Score(candidates[f[i]]),
                                     Score(candidates[f[j]]))

\* C24: rerank_with_original_scores of two or more candidates scores each
\* rerankWeight * (s - min) / (max - min) + originalWeight * priorScore
\* (weights 0.7 and 0.3); with all cross-encoder scores equal the
\* denominator is 1, the normalized scores are 0 and the order is by
\* descending priorScore; the output is non-increasing in the combined
\* score and cut to topK.
C24_BlendedScores ==
    (op = "rerank_with_original_scores" /\ Len(args.results) >= 2) =>
        /\ out.status = "ok"
        /\ Len(out.results) = Min(rerank_top_k(args.top_k), Len(args.results))
        /\ NonIncreasing(out.results)
        /\ Blended(out.results, args.results)

C24_Reordered ==
    /\ op = "rerank_with_original_scores"
    /\ Len(args.results) = 2
    /\ Len(out.results) = 2
    /\ BatchMin # 0
    /\ BatchMin < BatchMax
    /\ out.results[1].document = args.results[2].document
    /\ FracLess(Score(args.results[2]), Score(args.results[1]))

\* C25: after any add_documents, delete_documents, clear or reload of a
\* VectorStoreService the ids of the document cache are the ids of the
\* collection: get_document answers exactly for the ids a search can return
\* and document_count() is the number of cached documents.
C25_CacheMatchesCollection ==
    /\ DOMAIN document_cache = DOMAIN collection
    /\ vs_document_count = Cardinality(DOMAIN document_cache)
    /\ \A id \in DOMAIN document_cache : document_cache[id].id = id

C25_ReloadedTwoDocuments ==
    /\ op = "vs_restart"
    /\ DOMAIN document_cache = {"a", "b"}
    /\ cache_file.exists
    /\ DOMAIN cache_file.data = {"a", "b"}

NeedsProvider ==
    {"generate_response", "generate_similar_queries", "generate_chat_title"}

\* the call found the credential of the selected provider missing
CredentialMissing == op \in NeedsProvider /\ args.collaborator.kind = "init_raises"

\* C26: when the credential the selected provider requires is missing, the
\* operation that needed the provider raises the configuration error
\* (ValueError) to its caller instead of returning a normal result, and
\* the provider of one service instance is constructed at most once.
C26_ConfigurationErrorSurfaces ==
    /\ CredentialMissing => out = Raised("ValueError")
    /\ init_raises(llm_service) => llm_service.init_calls <= 1

ManagerOps ==
    {"get_chat", "save_chat", "delete_chat", "update_chat_title", "add_message",
     "update_document_count", "list_chats", "search_chats"}

\* C27: a call of any ChatManager operation by the manager of a user other
\* than the owner of the persisted chat returns no chat and leaves the chat
\* file and the conversation's index stores (ChromaDB collection,
\* document_cache.json, bm25_index.json) as they were.
C27_OtherUsersChangeNothing ==
    [][(/\ op' \in ManagerOps
        /\ chat_file.exists
        /\ args'.user_id # chat_file.user_id)
       => /\ chat_file' = chat_file
          /\ <<collection, cache_file, index_file>>' =
                 <<collection, cache_file, index_file>>
          /\ out'.results = <<>>]_vars

\* C28: after every handled submission of _render_chat_input, answered or
\* failed, the messages persisted in the chat file are, by role and
\* content, the messages of the session's list.
C28_TranscriptMatchesSession ==
    op = "submit" => chat_file.messages = messages

\* the loop of format_context ended with a partially included chunk
PartiallyIncluded ==
    /\ op = "format_context"
    /\ Len(out.results) >= Len(TruncatedMark)
    /\ SubSeq(out.results, Len(out.results) - Len(TruncatedMark) + 1,
              Len(out.results)) = TruncatedMark

\* C29: for a non-empty list of search results, the string format_context
\* returns is at most max_context_chars characters long, also when the
\* last chunk is included in part with the truncation marker.
C29_ContextWithinLimit ==
    (op = "format_context" /\ args.search_results # <<>>)
        => Len(out.results) <= args.max_context_chars

\* 1/(k+1), the most a fused score can be
ScoreBound == Frac(1, rrf_k + 1)

RankedFirstIn(list, id) == list # <<>> /\ list[1].document.id = id

\* the result carries a document of the input lists and a score in
\* (0, 1/(k+1)] (or [0, 1/(k+1)] unless positive), the bound being reached
\* only by a document that is first in every list of firsts
ScoreWithin(result, lists, firsts, positive) ==
    /\ \E q \in DOMAIN lists : \E j \in DOMAIN lists[q] :
           lists[q][j].document = result.document
    /\ positive => Score(result)[1] > 0
    /\ Score(result)[1] >= 0
    /\ ~FracLess(ScoreBound, Score(result))
    /\ Score(result) = ScoreBound =>
           \A q \in firsts : RankedFirstIn(lists[q], result.document.id)

EachIdOnce(lists) == \A q \in DOMAIN lists : NoRepeat(ResultIds(lists[q]))

\* the lists of a two-list fusion whose weight is not 0
Weighted ==
    {q \in 1..2 : (IF q = 1 THEN vector_weight[1] ELSE keyword_weight[1]) > 0}

\* C30 (as amended): when no id occurs twice in an input list, every result
\* of a fusion carries a document of the input lists and a fused score s
\* with 0 <= s <= 1/(k+1); s > 0 for N-list fusion, and for two-list fusion
\* when both weights are positive or the document is in a list of positive
\* weight.  The bound is reached only by a document ranked first in every
\* list of positive weight (every list, for N-list fusion).
C30_ScoreRange ==
    /\ (op = "rrf_fusion" /\ EachIdOnce(FusionInputs)) =>
          \A i \in DOMAIN out.results :
              ScoreWithin(out.results[i], FusionInputs, Weighted,
                          \E q \in Weighted :
                              RanksOf(FusionInputs[q],
                                      out.results[i].document.id) # {})
    /\ (op = "multi_query_rrf_fusion" /\ EachIdOnce(FusionInputs)) =>
          \A i \in DOMAIN out.results :
              ScoreWithin(out.results[i], FusionInputs, DOMAIN FusionInputs, TRUE)

\* C30 as stated: 0 < s <= 1/(k+1) for every pair of weights, the bound
\* reached only by a document ranked first in every fused list.
C30_AlwaysPositive ==
    (op \in {"rrf_fusion", "multi_query_rrf_fusion"} /\ EachIdOnce(FusionInputs)) =>
        \A i \in DOMAIN out.results :
            ScoreWithin(out.results[i], FusionInputs, DOMAIN FusionInputs, TRUE)

\* a document first in both lists, fused with positive weights, reaches
\* the bound, and another document stays below it
C30_BoundReached ==
    /\ op = "rrf_fusion"
    /\ EachIdOnce(FusionInputs)
    /\ Weighted = {1, 2}
    /\ Len(out.results) = 2
    /\ Score(out.results[1]) = ScoreBound
    /\ FracLess(Score(out.results[2]), ScoreBound)
    /\ Score(out.results[2])[1] > 0


====
